---- MODULE Spec2Model ----
(***************************************************************************)
(* Well / stimulation PDF pipeline (src/src/pdf_parser.py) with the entity *)
(* store of src/src/db_utils.py.                                           *)
(*                                                                         *)
(* Text is a sequence of characters. A character of \x20-\x7E is the       *)
(* one-character string, tab, line feed, form feed and carriage return are *)
(* "\t", "\n", "\f", "\r"; every other code point is "U+" and its hex       *)
(* digits, upper case, four at least: "U+2014" (em dash), "U+00A0"         *)
(* (no-break space), "U+000B"; the grave accent is "U+0060".               *)
(* Python values are tagged records: None, S(text), N(number), D(date).    *)
(* A function that raises yields the record of its exception, ValueError.  *)
(***************************************************************************)
EXTENDS Integers, Sequences, FiniteSets, TLC

\* ------------------------------------------------------------- values

None == [none |-> TRUE]

S(s) == [str |-> s]

N(n) == [num |-> n]

D(d) == [date |-> d]

\* the ValueError a call raises instead of returning
ValueError == [raise |-> "ValueError"]

\* `v in (None, "")`
IsMissing(v) == v = None \/ v = S(<<>>)

\* Python truthiness of a payload value: None, "", 0 are falsy
Truthy(v) == ~IsMissing(v) /\ v # N(0)

\* dict.get(key): None for an absent key
Get(d, k) == IF k \in DOMAIN d THEN d[k] ELSE None

\* ------------------------------------------------------------- characters

EN_DASH == "U+2013"

EM_DASH == "U+2014"

NBSP == "U+00A0"

\* the grave accent, which a TLA+ string cannot hold
BACKTICK == "U+0060"

DigitChars == {"0", "1", "2", "3", "4", "5", "6", "7", "8", "9"}

LetterChars ==
    {"a", "b", "c", "d", "e", "f", "g", "h", "i", "j", "k", "l", "m",
     "n", "o", "p", "q", "r", "s", "t", "u", "v", "w", "x", "y", "z",
     "A", "B", "C", "D", "E", "F", "G", "H", "I", "J", "K", "L", "M",
     "N", "O", "P", "Q", "R", "S", "T", "U", "V", "W", "X", "Y", "Z"}

PunctChars ==
    {"!", "\"", "#", "$", "%", "&", "'", "(", ")", "*", "+", ",", "-", ".",
     "/", ":", ";", "<", "=", ">", "?", "@", "[", "\\", "]", "^", "_", BACKTICK,
     "{", "|", "}", "~"}

\* \x20-\x7E
AsciiPrintable == {" "} \cup DigitChars \cup LetterChars \cup PunctChars

\* regex \s on str, str.strip(): the characters of str.isspace()
SpaceChars ==
    {" ", "\t", "\n", "\r", "\f", NBSP,
     "U+000B", "U+001C", "U+001D", "U+001E", "U+001F", "U+0085", "U+1680", "U+2000",
     "U+2001", "U+2002", "U+2003", "U+2004", "U+2005", "U+2006", "U+2007", "U+2008",
     "U+2009", "U+200A", "U+2028", "U+2029", "U+202F", "U+205F", "U+3000"}



\* ------------------------------------------------------------- helpers

\* re.sub of a one-character class, each character replaced by `by`
MapClass(s, class, by) == [i \in 1..Len(s) |-> IF s[i] \in class THEN by ELSE s[i]]

RECURSIVE DropClass(_, _)
\* re.sub(class, "", s)
DropClass(s, class) ==
    IF s = <<>> THEN <<>>
    ELSE IF Head(s) \in class THEN DropClass(Tail(s), class)
    ELSE <<Head(s)>> \o DropClass(Tail(s), class)

RECURSIVE CollapseRuns(_, _)
\* re.sub(class+, " ", s): every maximal run of the class becomes one space
CollapseRuns(s, class) ==
    IF s = <<>> THEN <<>>
    ELSE IF Head(s) \in class
         THEN IF Len(s) > 1 /\ s[2] \in class
              THEN CollapseRuns(Tail(s), class)
              ELSE <<" ">> \o CollapseRuns(Tail(s), class)
    ELSE <<Head(s)>> \o CollapseRuns(Tail(s), class)

RECURSIVE LStrip(_)
LStrip(s) == IF s # <<>> /\ Head(s) \in SpaceChars THEN LStrip(Tail(s)) ELSE s

RECURSIVE RStrip(_)
RStrip(s) ==
    IF s # <<>> /\ s[Len(s)] \in SpaceChars THEN RStrip(SubSeq(s, 1, Len(s) - 1)) ELSE s

\* str.strip()
Strip(s) == RStrip(LStrip(s))

Max(xs) == CHOOSE x \in xs : \A y \in xs : y <= x

\* ------------------------------------------------------------- string cleaning

\* [^\t\n\f <&#;] of html.unescape's character-reference pattern
EntityStop == {"\t", "\n", "\f", " ", "<", "&", "#", ";"}

HexDigits ==
    <<"0", "1", "2", "3", "4", "5", "6", "7", "8", "9", "A", "B", "C", "D", "E", "F">>

RECURSIVE Hex(_, _)
\* "%0*X" % (width, n)
Hex(n, width) ==
    IF n = 0 /\ width <= 0 THEN ""
    ELSE Hex(n \div 16, width - 1) \o HexDigits[(n % 16) + 1]

\* the characters \x20-\x7E in code-point order
AsciiChars ==
    <<" ", "!", "\"", "#", "$", "%", "&", "'", "(", ")", "*", "+", ",", "-", ".", "/", "0",
      "1", "2", "3", "4", "5", "6", "7", "8", "9", ":", ";", "<", "=", ">", "?", "@", "A", "B",
      "C", "D", "E", "F", "G", "H", "I", "J", "K", "L", "M", "N", "O", "P", "Q", "R", "S", "T",
      "U", "V", "W", "X", "Y", "Z", "[", "\\", "]", "^", "_", BACKTICK, "a", "b", "c", "d",
      "e", "f", "g", "h", "i", "j", "k", "l", "m", "n", "o", "p", "q", "r", "s", "t", "u", "v",
      "w", "x", "y", "z", "{", "|", "}", "~">>

\* chr(n), in the character representation of this model
Chr(n) ==
    IF n \in 32..126 THEN AsciiChars[n - 31]
    ELSE IF n = 9 THEN "\t"
    ELSE IF n = 10 THEN "\n"
    ELSE IF n = 12 THEN "\f"
    ELSE IF n = 13 THEN "\r"
    ELSE "U+" \o Hex(n, 4)

\* the characters with code points lo..hi of each pair lo, hi of a flat list
CharsOfRanges(bounds) ==
    {Chr(n) : n \in UNION {bounds[2 * k - 1]..bounds[2 * k] : k \in 1..(Len(bounds) \div 2)}}

\* regex \d on str: the first and last code point of every run of Unicode
\* decimal digits
DigitRanges ==
    <<48, 57, 1632, 1641, 1776, 1785, 1984, 1993, 2406, 2415, 2534, 2543, 2662, 2671, 2790,
      2799, 2918, 2927, 3046, 3055, 3174, 3183, 3302, 3311, 3430, 3439, 3558, 3567, 3664,
      3673, 3792, 3801, 3872, 3881, 4160, 4169, 4240, 4249, 6112, 6121, 6160, 6169, 6470,
      6479, 6608, 6617, 6784, 6793, 6800, 6809, 6992, 7001, 7088, 7097, 7232, 7241, 7248,
      7257, 42528, 42537, 43216, 43225, 43264, 43273, 43472, 43481, 43504, 43513, 43600,
      43609, 44016, 44025, 65296, 65305, 66720, 66729, 68912, 68921, 69734, 69743, 69872,
      69881, 69942, 69951, 70096, 70105, 70384, 70393, 70736, 70745, 70864, 70873, 71248,
      71257, 71360, 71369, 71472, 71481, 71904, 71913, 72016, 72025, 72784, 72793, 73040,
      73049, 73120, 73129, 92768, 92777, 92864, 92873, 93008, 93017, 120782, 120831, 123200,
      123209, 123632, 123641, 125264, 125273, 130032, 130041>>

UnicodeDigits == CharsOfRanges(DigitRanges)

\* regex \d (\D is its complement)
IsDigit(c) == c \in UnicodeDigits

\* regex \w on str: the first and last code point of every run of Unicode
\* alphanumerics, and the underscore
WordRanges ==
    <<48, 57, 65, 90, 95, 95, 97, 122, 170, 170, 178, 179, 181, 181, 185, 186, 188, 190, 192,
      214, 216, 246, 248, 705, 710, 721, 736, 740, 748, 748, 750, 750, 880, 884, 886, 887,
      890, 893, 895, 895, 902, 902, 904, 906, 908, 908, 910, 929, 931, 1013, 1015, 1153,
      1162, 1327, 1329, 1366, 1369, 1369, 1376, 1416, 1488, 1514, 1519, 1522, 1568, 1610,
      1632, 1641, 1646, 1647, 1649, 1747, 1749, 1749, 1765, 1766, 1774, 1788, 1791, 1791,
      1808, 1808, 1810, 1839, 1869, 1957, 1969, 1969, 1984, 2026, 2036, 2037, 2042, 2042,
      2048, 2069, 2074, 2074, 2084, 2084, 2088, 2088, 2112, 2136, 2144, 2154, 2160, 2183,
      2185, 2190, 2208, 2249, 2308, 2361, 2365, 2365, 2384, 2384, 2392, 2401, 2406, 2415,
      2417, 2432, 2437, 2444, 2447, 2448, 2451, 2472, 2474, 2480, 2482, 2482, 2486, 2489,
      2493, 2493, 2510, 2510, 2524, 2525, 2527, 2529, 2534, 2545, 2548, 2553, 2556, 2556,
      2565, 2570, 2575, 2576, 2579, 2600, 2602, 2608, 2610, 2611, 2613, 2614, 2616, 2617,
      2649, 2652, 2654, 2654, 2662, 2671, 2674, 2676, 2693, 2701, 2703, 2705, 2707, 2728,
      2730, 2736, 2738, 2739, 2741, 2745, 2749, 2749, 2768, 2768, 2784, 2785, 2790, 2799,
      2809, 2809, 2821, 2828, 2831, 2832, 2835, 2856, 2858, 2864, 2866, 2867, 2869, 2873,
      2877, 2877, 2908, 2909, 2911, 2913, 2918, 2927, 2929, 2935, 2947, 2947, 2949, 2954,
      2958, 2960, 2962, 2965, 2969, 2970, 2972, 2972, 2974, 2975, 2979, 2980, 2984, 2986,
      2990, 3001, 3024, 3024, 3046, 3058, 3077, 3084, 3086, 3088, 3090, 3112, 3114, 3129,
      3133, 3133, 3160, 3162, 3165, 3165, 3168, 3169, 3174, 3183, 3192, 3198, 3200, 3200,
      3205, 3212, 3214, 3216, 3218, 3240, 3242, 3251, 3253, 3257, 3261, 3261, 3293, 3294,
      3296, 3297, 3302, 3311, 3313, 3314, 3332, 3340, 3342, 3344, 3346, 3386, 3389, 3389,
      3406, 3406, 3412, 3414, 3416, 3425, 3430, 3448, 3450, 3455, 3461, 3478, 3482, 3505,
      3507, 3515, 3517, 3517, 3520, 3526, 3558, 3567, 3585, 3632, 3634, 3635, 3648, 3654,
      3664, 3673, 3713, 3714, 3716, 3716, 3718, 3722, 3724, 3747, 3749, 3749, 3751, 3760,
      3762, 3763, 3773, 3773, 3776, 3780, 3782, 3782, 3792, 3801, 3804, 3807, 3840, 3840,
      3872, 3891, 3904, 3911, 3913, 3948, 3976, 3980, 4096, 4138, 4159, 4169, 4176, 4181,
      4186, 4189, 4193, 4193, 4197, 4198, 4206, 4208, 4213, 4225, 4238, 4238, 4240, 4249,
      4256, 4293, 4295, 4295, 4301, 4301, 4304, 4346, 4348, 4680, 4682, 4685, 4688, 4694,
      4696, 4696, 4698, 4701, 4704, 4744, 4746, 4749, 4752, 4784, 4786, 4789, 4792, 4798,
      4800, 4800, 4802, 4805, 4808, 4822, 4824, 4880, 4882, 4885, 4888, 4954, 4969, 4988,
      4992, 5007, 5024, 5109, 5112, 5117, 5121, 5740, 5743, 5759, 5761, 5786, 5792, 5866,
      5870, 5880, 5888, 5905, 5919, 5937, 5952, 5969, 5984, 5996, 5998, 6000, 6016, 6067,
      6103, 6103, 6108, 6108, 6112, 6121, 6128, 6137, 6160, 6169, 6176, 6264, 6272, 6276,
      6279, 6312, 6314, 6314, 6320, 6389, 6400, 6430, 6470, 6509, 6512, 6516, 6528, 6571,
      6576, 6601, 6608, 6618, 6656, 6678, 6688, 6740, 6784, 6793, 6800, 6809, 6823, 6823,
      6917, 6963, 6981, 6988, 6992, 7001, 7043, 7072, 7086, 7141, 7168, 7203, 7232, 7241,
      7245, 7293, 7296, 7304, 7312, 7354, 7357, 7359, 7401, 7404, 7406, 7411, 7413, 7414,
      7418, 7418, 7424, 7615, 7680, 7957, 7960, 7965, 7968, 8005, 8008, 8013, 8016, 8023,
      8025, 8025, 8027, 8027, 8029, 8029, 8031, 8061, 8064, 8116, 8118, 8124, 8126, 8126,
      8130, 8132, 8134, 8140, 8144, 8147, 8150, 8155, 8160, 8172, 8178, 8180, 8182, 8188,
      8304, 8305, 8308, 8313, 8319, 8329, 8336, 8348, 8450, 8450, 8455, 8455, 8458, 8467,
      8469, 8469, 8473, 8477, 8484, 8484, 8486, 8486, 8488, 8488, 8490, 8493, 8495, 8505,
      8508, 8511, 8517, 8521, 8526, 8526, 8528, 8585, 9312, 9371, 9450, 9471, 10102, 10131,
      11264, 11492, 11499, 11502, 11506, 11507, 11517, 11517, 11520, 11557, 11559, 11559,
      11565, 11565, 11568, 11623, 11631, 11631, 11648, 11670, 11680, 11686, 11688, 11694,
      11696, 11702, 11704, 11710, 11712, 11718, 11720, 11726, 11728, 11734, 11736, 11742,
      11823, 11823, 12293, 12295, 12321, 12329, 12337, 12341, 12344, 12348, 12353, 12438,
      12445, 12447, 12449, 12538, 12540, 12543, 12549, 12591, 12593, 12686, 12690, 12693,
      12704, 12735, 12784, 12799, 12832, 12841, 12872, 12879, 12881, 12895, 12928, 12937,
      12977, 12991, 13312, 19903, 19968, 42124, 42192, 42237, 42240, 42508, 42512, 42539,
      42560, 42606, 42623, 42653, 42656, 42735, 42775, 42783, 42786, 42888, 42891, 42954,
      42960, 42961, 42963, 42963, 42965, 42969, 42994, 43009, 43011, 43013, 43015, 43018,
      43020, 43042, 43056, 43061, 43072, 43123, 43138, 43187, 43216, 43225, 43250, 43255,
      43259, 43259, 43261, 43262, 43264, 43301, 43312, 43334, 43360, 43388, 43396, 43442,
      43471, 43481, 43488, 43492, 43494, 43518, 43520, 43560, 43584, 43586, 43588, 43595,
      43600, 43609, 43616, 43638, 43642, 43642, 43646, 43695, 43697, 43697, 43701, 43702,
      43705, 43709, 43712, 43712, 43714, 43714, 43739, 43741, 43744, 43754, 43762, 43764,
      43777, 43782, 43785, 43790, 43793, 43798, 43808, 43814, 43816, 43822, 43824, 43866,
      43868, 43881, 43888, 44002, 44016, 44025, 44032, 55203, 55216, 55238, 55243, 55291,
      63744, 64109, 64112, 64217, 64256, 64262, 64275, 64279, 64285, 64285, 64287, 64296,
      64298, 64310, 64312, 64316, 64318, 64318, 64320, 64321, 64323, 64324, 64326, 64433,
      64467, 64829, 64848, 64911, 64914, 64967, 65008, 65019, 65136, 65140, 65142, 65276,
      65296, 65305, 65313, 65338, 65345, 65370, 65382, 65470, 65474, 65479, 65482, 65487,
      65490, 65495, 65498, 65500, 65536, 65547, 65549, 65574, 65576, 65594, 65596, 65597,
      65599, 65613, 65616, 65629, 65664, 65786, 65799, 65843, 65856, 65912, 65930, 65931,
      66176, 66204, 66208, 66256, 66273, 66299, 66304, 66339, 66349, 66378, 66384, 66421,
      66432, 66461, 66464, 66499, 66504, 66511, 66513, 66517, 66560, 66717, 66720, 66729,
      66736, 66771, 66776, 66811, 66816, 66855, 66864, 66915, 66928, 66938, 66940, 66954,
      66956, 66962, 66964, 66965, 66967, 66977, 66979, 66993, 66995, 67001, 67003, 67004,
      67072, 67382, 67392, 67413, 67424, 67431, 67456, 67461, 67463, 67504, 67506, 67514,
      67584, 67589, 67592, 67592, 67594, 67637, 67639, 67640, 67644, 67644, 67647, 67669,
      67672, 67702, 67705, 67742, 67751, 67759, 67808, 67826, 67828, 67829, 67835, 67867,
      67872, 67897, 67968, 68023, 68028, 68047, 68050, 68096, 68112, 68115, 68117, 68119,
      68121, 68149, 68160, 68168, 68192, 68222, 68224, 68255, 68288, 68295, 68297, 68324,
      68331, 68335, 68352, 68405, 68416, 68437, 68440, 68466, 68472, 68497, 68521, 68527,
      68608, 68680, 68736, 68786, 68800, 68850, 68858, 68899, 68912, 68921, 69216, 69246,
      69248, 69289, 69296, 69297, 69376, 69415, 69424, 69445, 69457, 69460, 69488, 69505,
      69552, 69579, 69600, 69622, 69635, 69687, 69714, 69743, 69745, 69746, 69749, 69749,
      69763, 69807, 69840, 69864, 69872, 69881, 69891, 69926, 69942, 69951, 69956, 69956,
      69959, 69959, 69968, 70002, 70006, 70006, 70019, 70066, 70081, 70084, 70096, 70106,
      70108, 70108, 70113, 70132, 70144, 70161, 70163, 70187, 70272, 70278, 70280, 70280,
      70282, 70285, 70287, 70301, 70303, 70312, 70320, 70366, 70384, 70393, 70405, 70412,
      70415, 70416, 70419, 70440, 70442, 70448, 70450, 70451, 70453, 70457, 70461, 70461,
      70480, 70480, 70493, 70497, 70656, 70708, 70727, 70730, 70736, 70745, 70751, 70753,
      70784, 70831, 70852, 70853, 70855, 70855, 70864, 70873, 71040, 71086, 71128, 71131,
      71168, 71215, 71236, 71236, 71248, 71257, 71296, 71338, 71352, 71352, 71360, 71369,
      71424, 71450, 71472, 71483, 71488, 71494, 71680, 71723, 71840, 71922, 71935, 71942,
      71945, 71945, 71948, 71955, 71957, 71958, 71960, 71983, 71999, 71999, 72001, 72001,
      72016, 72025, 72096, 72103, 72106, 72144, 72161, 72161, 72163, 72163, 72192, 72192,
      72203, 72242, 72250, 72250, 72272, 72272, 72284, 72329, 72349, 72349, 72368, 72440,
      72704, 72712, 72714, 72750, 72768, 72768, 72784, 72812, 72818, 72847, 72960, 72966,
      72968, 72969, 72971, 73008, 73030, 73030, 73040, 73049, 73056, 73061, 73063, 73064,
      73066, 73097, 73112, 73112, 73120, 73129, 73440, 73458, 73648, 73648, 73664, 73684,
      73728, 74649, 74752, 74862, 74880, 75075, 77712, 77808, 77824, 78894, 82944, 83526,
      92160, 92728, 92736, 92766, 92768, 92777, 92784, 92862, 92864, 92873, 92880, 92909,
      92928, 92975, 92992, 92995, 93008, 93017, 93019, 93025, 93027, 93047, 93053, 93071,
      93760, 93846, 93952, 94026, 94032, 94032, 94099, 94111, 94176, 94177, 94179, 94179,
      94208, 100343, 100352, 101589, 101632, 101640, 110576, 110579, 110581, 110587, 110589,
      110590, 110592, 110882, 110928, 110930, 110948, 110951, 110960, 111355, 113664, 113770,
      113776, 113788, 113792, 113800, 113808, 113817, 119520, 119539, 119648, 119672, 119808,
      119892, 119894, 119964, 119966, 119967, 119970, 119970, 119973, 119974, 119977, 119980,
      119982, 119993, 119995, 119995, 119997, 120003, 120005, 120069, 120071, 120074, 120077,
      120084, 120086, 120092, 120094, 120121, 120123, 120126, 120128, 120132, 120134, 120134,
      120138, 120144, 120146, 120485, 120488, 120512, 120514, 120538, 120540, 120570, 120572,
      120596, 120598, 120628, 120630, 120654, 120656, 120686, 120688, 120712, 120714, 120744,
      120746, 120770, 120772, 120779, 120782, 120831, 122624, 122654, 123136, 123180, 123191,
      123197, 123200, 123209, 123214, 123214, 123536, 123565, 123584, 123627, 123632, 123641,
      124896, 124902, 124904, 124907, 124909, 124910, 124912, 124926, 124928, 125124, 125127,
      125135, 125184, 125251, 125259, 125259, 125264, 125273, 126065, 126123, 126125, 126127,
      126129, 126132, 126209, 126253, 126255, 126269, 126464, 126467, 126469, 126495, 126497,
      126498, 126500, 126500, 126503, 126503, 126505, 126514, 126516, 126519, 126521, 126521,
      126523, 126523, 126530, 126530, 126535, 126535, 126537, 126537, 126539, 126539, 126541,
      126543, 126545, 126546, 126548, 126548, 126551, 126551, 126553, 126553, 126555, 126555,
      126557, 126557, 126559, 126559, 126561, 126562, 126564, 126564, 126567, 126570, 126572,
      126578, 126580, 126583, 126585, 126588, 126590, 126590, 126592, 126601, 126603, 126619,
      126625, 126627, 126629, 126633, 126635, 126651, 127232, 127244, 130032, 130041, 131072,
      173791, 173824, 177976, 177984, 178205, 178208, 183969, 183984, 191456, 194560, 195101,
      196608, 201546>>

UnicodeWordChars == CharsOfRanges(WordRanges)

\* regex \w, whose edges are the \b of the contiguous pattern
IsWord(c) == c \in UnicodeWordChars

\* html.entities.html5, the table html.unescape consults: a name, without its
\* "&" and with its ";" where the table has it, followed by the one or two
\* characters of its value
Html5Table ==
    {<<"AElig", "U+00C6">>, <<"AElig;", "U+00C6">>, <<"AMP", "&">>, <<"AMP;", "&">>,
     <<"Aacute", "U+00C1">>, <<"Aacute;", "U+00C1">>, <<"Abreve;", "U+0102">>,
     <<"Acirc", "U+00C2">>, <<"Acirc;", "U+00C2">>, <<"Acy;", "U+0410">>, <<"Afr;", "U+1D504">>,
     <<"Agrave", "U+00C0">>, <<"Agrave;", "U+00C0">>, <<"Alpha;", "U+0391">>,
     <<"Amacr;", "U+0100">>, <<"And;", "U+2A53">>, <<"Aogon;", "U+0104">>,
     <<"Aopf;", "U+1D538">>, <<"ApplyFunction;", "U+2061">>, <<"Aring", "U+00C5">>,
     <<"Aring;", "U+00C5">>, <<"Ascr;", "U+1D49C">>, <<"Assign;", "U+2254">>,
     <<"Atilde", "U+00C3">>, <<"Atilde;", "U+00C3">>, <<"Auml", "U+00C4">>,
     <<"Auml;", "U+00C4">>, <<"Backslash;", "U+2216">>, <<"Barv;", "U+2AE7">>,
     <<"Barwed;", "U+2306">>, <<"Bcy;", "U+0411">>, <<"Because;", "U+2235">>,
     <<"Bernoullis;", "U+212C">>, <<"Beta;", "U+0392">>, <<"Bfr;", "U+1D505">>,
     <<"Bopf;", "U+1D539">>, <<"Breve;", "U+02D8">>, <<"Bscr;", "U+212C">>,
     <<"Bumpeq;", "U+224E">>, <<"CHcy;", "U+0427">>, <<"COPY", "U+00A9">>,
     <<"COPY;", "U+00A9">>, <<"Cacute;", "U+0106">>, <<"Cap;", "U+22D2">>,
     <<"CapitalDifferentialD;", "U+2145">>, <<"Cayleys;", "U+212D">>, <<"Ccaron;", "U+010C">>,
     <<"Ccedil", "U+00C7">>, <<"Ccedil;", "U+00C7">>, <<"Ccirc;", "U+0108">>,
     <<"Cconint;", "U+2230">>, <<"Cdot;", "U+010A">>, <<"Cedilla;", "U+00B8">>,
     <<"CenterDot;", "U+00B7">>, <<"Cfr;", "U+212D">>, <<"Chi;", "U+03A7">>,
     <<"CircleDot;", "U+2299">>, <<"CircleMinus;", "U+2296">>, <<"CirclePlus;", "U+2295">>,
     <<"CircleTimes;", "U+2297">>, <<"ClockwiseContourIntegral;", "U+2232">>,
     <<"CloseCurlyDoubleQuote;", "U+201D">>, <<"CloseCurlyQuote;", "U+2019">>,
     <<"Colon;", "U+2237">>, <<"Colone;", "U+2A74">>, <<"Congruent;", "U+2261">>,
     <<"Conint;", "U+222F">>, <<"ContourIntegral;", "U+222E">>, <<"Copf;", "U+2102">>,
     <<"Coproduct;", "U+2210">>, <<"CounterClockwiseContourIntegral;", "U+2233">>,
     <<"Cross;", "U+2A2F">>, <<"Cscr;", "U+1D49E">>, <<"Cup;", "U+22D3">>,
     <<"CupCap;", "U+224D">>, <<"DD;", "U+2145">>, <<"DDotrahd;", "U+2911">>,
     <<"DJcy;", "U+0402">>, <<"DScy;", "U+0405">>, <<"DZcy;", "U+040F">>,
     <<"Dagger;", "U+2021">>, <<"Darr;", "U+21A1">>, <<"Dashv;", "U+2AE4">>,
     <<"Dcaron;", "U+010E">>, <<"Dcy;", "U+0414">>, <<"Del;", "U+2207">>,
     <<"Delta;", "U+0394">>, <<"Dfr;", "U+1D507">>, <<"DiacriticalAcute;", "U+00B4">>,
     <<"DiacriticalDot;", "U+02D9">>, <<"DiacriticalDoubleAcute;", "U+02DD">>,
     <<"DiacriticalGrave;", "U+0060">>, <<"DiacriticalTilde;", "U+02DC">>,
     <<"Diamond;", "U+22C4">>, <<"DifferentialD;", "U+2146">>, <<"Dopf;", "U+1D53B">>,
     <<"Dot;", "U+00A8">>, <<"DotDot;", "U+20DC">>, <<"DotEqual;", "U+2250">>,
     <<"DoubleContourIntegral;", "U+222F">>, <<"DoubleDot;", "U+00A8">>,
     <<"DoubleDownArrow;", "U+21D3">>, <<"DoubleLeftArrow;", "U+21D0">>,
     <<"DoubleLeftRightArrow;", "U+21D4">>, <<"DoubleLeftTee;", "U+2AE4">>,
     <<"DoubleLongLeftArrow;", "U+27F8">>, <<"DoubleLongLeftRightArrow;", "U+27FA">>,
     <<"DoubleLongRightArrow;", "U+27F9">>, <<"DoubleRightArrow;", "U+21D2">>,
     <<"DoubleRightTee;", "U+22A8">>, <<"DoubleUpArrow;", "U+21D1">>,
     <<"DoubleUpDownArrow;", "U+21D5">>, <<"DoubleVerticalBar;", "U+2225">>,
     <<"DownArrow;", "U+2193">>, <<"DownArrowBar;", "U+2913">>,
     <<"DownArrowUpArrow;", "U+21F5">>, <<"DownBreve;", "U+0311">>,
     <<"DownLeftRightVector;", "U+2950">>, <<"DownLeftTeeVector;", "U+295E">>,
     <<"DownLeftVector;", "U+21BD">>, <<"DownLeftVectorBar;", "U+2956">>,
     <<"DownRightTeeVector;", "U+295F">>, <<"DownRightVector;", "U+21C1">>,
     <<"DownRightVectorBar;", "U+2957">>, <<"DownTee;", "U+22A4">>,
     <<"DownTeeArrow;", "U+21A7">>, <<"Downarrow;", "U+21D3">>, <<"Dscr;", "U+1D49F">>,
     <<"Dstrok;", "U+0110">>, <<"ENG;", "U+014A">>, <<"ETH", "U+00D0">>, <<"ETH;", "U+00D0">>,
     <<"Eacute", "U+00C9">>, <<"Eacute;", "U+00C9">>, <<"Ecaron;", "U+011A">>,
     <<"Ecirc", "U+00CA">>, <<"Ecirc;", "U+00CA">>, <<"Ecy;", "U+042D">>, <<"Edot;", "U+0116">>,
     <<"Efr;", "U+1D508">>, <<"Egrave", "U+00C8">>, <<"Egrave;", "U+00C8">>,
     <<"Element;", "U+2208">>, <<"Emacr;", "U+0112">>, <<"EmptySmallSquare;", "U+25FB">>,
     <<"EmptyVerySmallSquare;", "U+25AB">>, <<"Eogon;", "U+0118">>, <<"Eopf;", "U+1D53C">>,
     <<"Epsilon;", "U+0395">>, <<"Equal;", "U+2A75">>, <<"EqualTilde;", "U+2242">>,
     <<"Equilibrium;", "U+21CC">>, <<"Escr;", "U+2130">>, <<"Esim;", "U+2A73">>,
     <<"Eta;", "U+0397">>, <<"Euml", "U+00CB">>, <<"Euml;", "U+00CB">>, <<"Exists;", "U+2203">>,
     <<"ExponentialE;", "U+2147">>, <<"Fcy;", "U+0424">>, <<"Ffr;", "U+1D509">>,
     <<"FilledSmallSquare;", "U+25FC">>, <<"FilledVerySmallSquare;", "U+25AA">>,
     <<"Fopf;", "U+1D53D">>, <<"ForAll;", "U+2200">>, <<"Fouriertrf;", "U+2131">>,
     <<"Fscr;", "U+2131">>, <<"GJcy;", "U+0403">>, <<"GT", ">">>, <<"GT;", ">">>,
     <<"Gamma;", "U+0393">>, <<"Gammad;", "U+03DC">>, <<"Gbreve;", "U+011E">>,
     <<"Gcedil;", "U+0122">>, <<"Gcirc;", "U+011C">>, <<"Gcy;", "U+0413">>,
     <<"Gdot;", "U+0120">>, <<"Gfr;", "U+1D50A">>, <<"Gg;", "U+22D9">>, <<"Gopf;", "U+1D53E">>,
     <<"GreaterEqual;", "U+2265">>, <<"GreaterEqualLess;", "U+22DB">>,
     <<"GreaterFullEqual;", "U+2267">>, <<"GreaterGreater;", "U+2AA2">>,
     <<"GreaterLess;", "U+2277">>, <<"GreaterSlantEqual;", "U+2A7E">>,
     <<"GreaterTilde;", "U+2273">>, <<"Gscr;", "U+1D4A2">>, <<"Gt;", "U+226B">>,
     <<"HARDcy;", "U+042A">>, <<"Hacek;", "U+02C7">>, <<"Hat;", "^">>, <<"Hcirc;", "U+0124">>,
     <<"Hfr;", "U+210C">>, <<"HilbertSpace;", "U+210B">>, <<"Hopf;", "U+210D">>,
     <<"HorizontalLine;", "U+2500">>, <<"Hscr;", "U+210B">>, <<"Hstrok;", "U+0126">>,
     <<"HumpDownHump;", "U+224E">>, <<"HumpEqual;", "U+224F">>, <<"IEcy;", "U+0415">>,
     <<"IJlig;", "U+0132">>, <<"IOcy;", "U+0401">>, <<"Iacute", "U+00CD">>,
     <<"Iacute;", "U+00CD">>, <<"Icirc", "U+00CE">>, <<"Icirc;", "U+00CE">>,
     <<"Icy;", "U+0418">>, <<"Idot;", "U+0130">>, <<"Ifr;", "U+2111">>, <<"Igrave", "U+00CC">>,
     <<"Igrave;", "U+00CC">>, <<"Im;", "U+2111">>, <<"Imacr;", "U+012A">>,
     <<"ImaginaryI;", "U+2148">>, <<"Implies;", "U+21D2">>, <<"Int;", "U+222C">>,
     <<"Integral;", "U+222B">>, <<"Intersection;", "U+22C2">>, <<"InvisibleComma;", "U+2063">>,
     <<"InvisibleTimes;", "U+2062">>, <<"Iogon;", "U+012E">>, <<"Iopf;", "U+1D540">>,
     <<"Iota;", "U+0399">>, <<"Iscr;", "U+2110">>, <<"Itilde;", "U+0128">>,
     <<"Iukcy;", "U+0406">>, <<"Iuml", "U+00CF">>, <<"Iuml;", "U+00CF">>,
     <<"Jcirc;", "U+0134">>, <<"Jcy;", "U+0419">>, <<"Jfr;", "U+1D50D">>,
     <<"Jopf;", "U+1D541">>, <<"Jscr;", "U+1D4A5">>, <<"Jsercy;", "U+0408">>,
     <<"Jukcy;", "U+0404">>, <<"KHcy;", "U+0425">>, <<"KJcy;", "U+040C">>,
     <<"Kappa;", "U+039A">>, <<"Kcedil;", "U+0136">>, <<"Kcy;", "U+041A">>,
     <<"Kfr;", "U+1D50E">>, <<"Kopf;", "U+1D542">>, <<"Kscr;", "U+1D4A6">>,
     <<"LJcy;", "U+0409">>, <<"LT", "<">>, <<"LT;", "<">>, <<"Lacute;", "U+0139">>,
     <<"Lambda;", "U+039B">>, <<"Lang;", "U+27EA">>, <<"Laplacetrf;", "U+2112">>,
     <<"Larr;", "U+219E">>, <<"Lcaron;", "U+013D">>, <<"Lcedil;", "U+013B">>,
     <<"Lcy;", "U+041B">>, <<"LeftAngleBracket;", "U+27E8">>, <<"LeftArrow;", "U+2190">>,
     <<"LeftArrowBar;", "U+21E4">>, <<"LeftArrowRightArrow;", "U+21C6">>,
     <<"LeftCeiling;", "U+2308">>, <<"LeftDoubleBracket;", "U+27E6">>,
     <<"LeftDownTeeVector;", "U+2961">>, <<"LeftDownVector;", "U+21C3">>,
     <<"LeftDownVectorBar;", "U+2959">>, <<"LeftFloor;", "U+230A">>,
     <<"LeftRightArrow;", "U+2194">>, <<"LeftRightVector;", "U+294E">>,
     <<"LeftTee;", "U+22A3">>, <<"LeftTeeArrow;", "U+21A4">>, <<"LeftTeeVector;", "U+295A">>,
     <<"LeftTriangle;", "U+22B2">>, <<"LeftTriangleBar;", "U+29CF">>,
     <<"LeftTriangleEqual;", "U+22B4">>, <<"LeftUpDownVector;", "U+2951">>,
     <<"LeftUpTeeVector;", "U+2960">>, <<"LeftUpVector;", "U+21BF">>,
     <<"LeftUpVectorBar;", "U+2958">>, <<"LeftVector;", "U+21BC">>,
     <<"LeftVectorBar;", "U+2952">>, <<"Leftarrow;", "U+21D0">>,
     <<"Leftrightarrow;", "U+21D4">>, <<"LessEqualGreater;", "U+22DA">>,
     <<"LessFullEqual;", "U+2266">>, <<"LessGreater;", "U+2276">>, <<"LessLess;", "U+2AA1">>,
     <<"LessSlantEqual;", "U+2A7D">>, <<"LessTilde;", "U+2272">>, <<"Lfr;", "U+1D50F">>,
     <<"Ll;", "U+22D8">>, <<"Lleftarrow;", "U+21DA">>, <<"Lmidot;", "U+013F">>,
     <<"LongLeftArrow;", "U+27F5">>, <<"LongLeftRightArrow;", "U+27F7">>,
     <<"LongRightArrow;", "U+27F6">>, <<"Longleftarrow;", "U+27F8">>,
     <<"Longleftrightarrow;", "U+27FA">>, <<"Longrightarrow;", "U+27F9">>,
     <<"Lopf;", "U+1D543">>, <<"LowerLeftArrow;", "U+2199">>, <<"LowerRightArrow;", "U+2198">>,
     <<"Lscr;", "U+2112">>, <<"Lsh;", "U+21B0">>, <<"Lstrok;", "U+0141">>, <<"Lt;", "U+226A">>,
     <<"Map;", "U+2905">>, <<"Mcy;", "U+041C">>, <<"MediumSpace;", "U+205F">>,
     <<"Mellintrf;", "U+2133">>, <<"Mfr;", "U+1D510">>, <<"MinusPlus;", "U+2213">>,
     <<"Mopf;", "U+1D544">>, <<"Mscr;", "U+2133">>, <<"Mu;", "U+039C">>, <<"NJcy;", "U+040A">>,
     <<"Nacute;", "U+0143">>, <<"Ncaron;", "U+0147">>, <<"Ncedil;", "U+0145">>,
     <<"Ncy;", "U+041D">>, <<"NegativeMediumSpace;", "U+200B">>,
     <<"NegativeThickSpace;", "U+200B">>, <<"NegativeThinSpace;", "U+200B">>,
     <<"NegativeVeryThinSpace;", "U+200B">>, <<"NestedGreaterGreater;", "U+226B">>,
     <<"NestedLessLess;", "U+226A">>, <<"NewLine;", "\n">>, <<"Nfr;", "U+1D511">>,
     <<"NoBreak;", "U+2060">>, <<"NonBreakingSpace;", "U+00A0">>, <<"Nopf;", "U+2115">>,
     <<"Not;", "U+2AEC">>, <<"NotCongruent;", "U+2262">>, <<"NotCupCap;", "U+226D">>,
     <<"NotDoubleVerticalBar;", "U+2226">>, <<"NotElement;", "U+2209">>,
     <<"NotEqual;", "U+2260">>, <<"NotEqualTilde;", "U+2242", "U+0338">>,
     <<"NotExists;", "U+2204">>, <<"NotGreater;", "U+226F">>, <<"NotGreaterEqual;", "U+2271">>,
     <<"NotGreaterFullEqual;", "U+2267", "U+0338">>,
     <<"NotGreaterGreater;", "U+226B", "U+0338">>, <<"NotGreaterLess;", "U+2279">>,
     <<"NotGreaterSlantEqual;", "U+2A7E", "U+0338">>, <<"NotGreaterTilde;", "U+2275">>,
     <<"NotHumpDownHump;", "U+224E", "U+0338">>, <<"NotHumpEqual;", "U+224F", "U+0338">>,
     <<"NotLeftTriangle;", "U+22EA">>, <<"NotLeftTriangleBar;", "U+29CF", "U+0338">>,
     <<"NotLeftTriangleEqual;", "U+22EC">>, <<"NotLess;", "U+226E">>,
     <<"NotLessEqual;", "U+2270">>, <<"NotLessGreater;", "U+2278">>,
     <<"NotLessLess;", "U+226A", "U+0338">>, <<"NotLessSlantEqual;", "U+2A7D", "U+0338">>,
     <<"NotLessTilde;", "U+2274">>, <<"NotNestedGreaterGreater;", "U+2AA2", "U+0338">>,
     <<"NotNestedLessLess;", "U+2AA1", "U+0338">>, <<"NotPrecedes;", "U+2280">>,
     <<"NotPrecedesEqual;", "U+2AAF", "U+0338">>, <<"NotPrecedesSlantEqual;", "U+22E0">>,
     <<"NotReverseElement;", "U+220C">>, <<"NotRightTriangle;", "U+22EB">>,
     <<"NotRightTriangleBar;", "U+29D0", "U+0338">>, <<"NotRightTriangleEqual;", "U+22ED">>,
     <<"NotSquareSubset;", "U+228F", "U+0338">>, <<"NotSquareSubsetEqual;", "U+22E2">>,
     <<"NotSquareSuperset;", "U+2290", "U+0338">>, <<"NotSquareSupersetEqual;", "U+22E3">>,
     <<"NotSubset;", "U+2282", "U+20D2">>, <<"NotSubsetEqual;", "U+2288">>,
     <<"NotSucceeds;", "U+2281">>, <<"NotSucceedsEqual;", "U+2AB0", "U+0338">>,
     <<"NotSucceedsSlantEqual;", "U+22E1">>, <<"NotSucceedsTilde;", "U+227F", "U+0338">>,
     <<"NotSuperset;", "U+2283", "U+20D2">>, <<"NotSupersetEqual;", "U+2289">>,
     <<"NotTilde;", "U+2241">>, <<"NotTildeEqual;", "U+2244">>,
     <<"NotTildeFullEqual;", "U+2247">>, <<"NotTildeTilde;", "U+2249">>,
     <<"NotVerticalBar;", "U+2224">>, <<"Nscr;", "U+1D4A9">>, <<"Ntilde", "U+00D1">>,
     <<"Ntilde;", "U+00D1">>, <<"Nu;", "U+039D">>, <<"OElig;", "U+0152">>,
     <<"Oacute", "U+00D3">>, <<"Oacute;", "U+00D3">>, <<"Ocirc", "U+00D4">>,
     <<"Ocirc;", "U+00D4">>, <<"Ocy;", "U+041E">>, <<"Odblac;", "U+0150">>,
     <<"Ofr;", "U+1D512">>, <<"Ograve", "U+00D2">>, <<"Ograve;", "U+00D2">>,
     <<"Omacr;", "U+014C">>, <<"Omega;", "U+03A9">>, <<"Omicron;", "U+039F">>,
     <<"Oopf;", "U+1D546">>, <<"OpenCurlyDoubleQuote;", "U+201C">>,
     <<"OpenCurlyQuote;", "U+2018">>, <<"Or;", "U+2A54">>, <<"Oscr;", "U+1D4AA">>,
     <<"Oslash", "U+00D8">>, <<"Oslash;", "U+00D8">>, <<"Otilde", "U+00D5">>,
     <<"Otilde;", "U+00D5">>, <<"Otimes;", "U+2A37">>, <<"Ouml", "U+00D6">>,
     <<"Ouml;", "U+00D6">>, <<"OverBar;", "U+203E">>, <<"OverBrace;", "U+23DE">>,
     <<"OverBracket;", "U+23B4">>, <<"OverParenthesis;", "U+23DC">>, <<"PartialD;", "U+2202">>,
     <<"Pcy;", "U+041F">>, <<"Pfr;", "U+1D513">>, <<"Phi;", "U+03A6">>, <<"Pi;", "U+03A0">>,
     <<"PlusMinus;", "U+00B1">>, <<"Poincareplane;", "U+210C">>, <<"Popf;", "U+2119">>,
     <<"Pr;", "U+2ABB">>, <<"Precedes;", "U+227A">>, <<"PrecedesEqual;", "U+2AAF">>,
     <<"PrecedesSlantEqual;", "U+227C">>, <<"PrecedesTilde;", "U+227E">>,
     <<"Prime;", "U+2033">>, <<"Product;", "U+220F">>, <<"Proportion;", "U+2237">>,
     <<"Proportional;", "U+221D">>, <<"Pscr;", "U+1D4AB">>, <<"Psi;", "U+03A8">>,
     <<"QUOT", "\"">>, <<"QUOT;", "\"">>, <<"Qfr;", "U+1D514">>, <<"Qopf;", "U+211A">>,
     <<"Qscr;", "U+1D4AC">>, <<"RBarr;", "U+2910">>, <<"REG", "U+00AE">>, <<"REG;", "U+00AE">>,
     <<"Racute;", "U+0154">>, <<"Rang;", "U+27EB">>, <<"Rarr;", "U+21A0">>,
     <<"Rarrtl;", "U+2916">>, <<"Rcaron;", "U+0158">>, <<"Rcedil;", "U+0156">>,
     <<"Rcy;", "U+0420">>, <<"Re;", "U+211C">>, <<"ReverseElement;", "U+220B">>,
     <<"ReverseEquilibrium;", "U+21CB">>, <<"ReverseUpEquilibrium;", "U+296F">>,
     <<"Rfr;", "U+211C">>, <<"Rho;", "U+03A1">>, <<"RightAngleBracket;", "U+27E9">>,
     <<"RightArrow;", "U+2192">>, <<"RightArrowBar;", "U+21E5">>,
     <<"RightArrowLeftArrow;", "U+21C4">>, <<"RightCeiling;", "U+2309">>,
     <<"RightDoubleBracket;", "U+27E7">>, <<"RightDownTeeVector;", "U+295D">>,
     <<"RightDownVector;", "U+21C2">>, <<"RightDownVectorBar;", "U+2955">>,
     <<"RightFloor;", "U+230B">>, <<"RightTee;", "U+22A2">>, <<"RightTeeArrow;", "U+21A6">>,
     <<"RightTeeVector;", "U+295B">>, <<"RightTriangle;", "U+22B3">>,
     <<"RightTriangleBar;", "U+29D0">>, <<"RightTriangleEqual;", "U+22B5">>,
     <<"RightUpDownVector;", "U+294F">>, <<"RightUpTeeVector;", "U+295C">>,
     <<"RightUpVector;", "U+21BE">>, <<"RightUpVectorBar;", "U+2954">>,
     <<"RightVector;", "U+21C0">>, <<"RightVectorBar;", "U+2953">>, <<"Rightarrow;", "U+21D2">>,
     <<"Ropf;", "U+211D">>, <<"RoundImplies;", "U+2970">>, <<"Rrightarrow;", "U+21DB">>,
     <<"Rscr;", "U+211B">>, <<"Rsh;", "U+21B1">>, <<"RuleDelayed;", "U+29F4">>,
     <<"SHCHcy;", "U+0429">>, <<"SHcy;", "U+0428">>, <<"SOFTcy;", "U+042C">>,
     <<"Sacute;", "U+015A">>, <<"Sc;", "U+2ABC">>, <<"Scaron;", "U+0160">>,
     <<"Scedil;", "U+015E">>, <<"Scirc;", "U+015C">>, <<"Scy;", "U+0421">>,
     <<"Sfr;", "U+1D516">>, <<"ShortDownArrow;", "U+2193">>, <<"ShortLeftArrow;", "U+2190">>,
     <<"ShortRightArrow;", "U+2192">>, <<"ShortUpArrow;", "U+2191">>, <<"Sigma;", "U+03A3">>,
     <<"SmallCircle;", "U+2218">>, <<"Sopf;", "U+1D54A">>, <<"Sqrt;", "U+221A">>,
     <<"Square;", "U+25A1">>, <<"SquareIntersection;", "U+2293">>,
     <<"SquareSubset;", "U+228F">>, <<"SquareSubsetEqual;", "U+2291">>,
     <<"SquareSuperset;", "U+2290">>, <<"SquareSupersetEqual;", "U+2292">>,
     <<"SquareUnion;", "U+2294">>, <<"Sscr;", "U+1D4AE">>, <<"Star;", "U+22C6">>,
     <<"Sub;", "U+22D0">>, <<"Subset;", "U+22D0">>, <<"SubsetEqual;", "U+2286">>,
     <<"Succeeds;", "U+227B">>, <<"SucceedsEqual;", "U+2AB0">>,
     <<"SucceedsSlantEqual;", "U+227D">>, <<"SucceedsTilde;", "U+227F">>,
     <<"SuchThat;", "U+220B">>, <<"Sum;", "U+2211">>, <<"Sup;", "U+22D1">>,
     <<"Superset;", "U+2283">>, <<"SupersetEqual;", "U+2287">>, <<"Supset;", "U+22D1">>,
     <<"THORN", "U+00DE">>, <<"THORN;", "U+00DE">>, <<"TRADE;", "U+2122">>,
     <<"TSHcy;", "U+040B">>, <<"TScy;", "U+0426">>, <<"Tab;", "\t">>, <<"Tau;", "U+03A4">>,
     <<"Tcaron;", "U+0164">>, <<"Tcedil;", "U+0162">>, <<"Tcy;", "U+0422">>,
     <<"Tfr;", "U+1D517">>, <<"Therefore;", "U+2234">>, <<"Theta;", "U+0398">>,
     <<"ThickSpace;", "U+205F", "U+200A">>, <<"ThinSpace;", "U+2009">>, <<"Tilde;", "U+223C">>,
     <<"TildeEqual;", "U+2243">>, <<"TildeFullEqual;", "U+2245">>, <<"TildeTilde;", "U+2248">>,
     <<"Topf;", "U+1D54B">>, <<"TripleDot;", "U+20DB">>, <<"Tscr;", "U+1D4AF">>,
     <<"Tstrok;", "U+0166">>, <<"Uacute", "U+00DA">>, <<"Uacute;", "U+00DA">>,
     <<"Uarr;", "U+219F">>, <<"Uarrocir;", "U+2949">>, <<"Ubrcy;", "U+040E">>,
     <<"Ubreve;", "U+016C">>, <<"Ucirc", "U+00DB">>, <<"Ucirc;", "U+00DB">>,
     <<"Ucy;", "U+0423">>, <<"Udblac;", "U+0170">>, <<"Ufr;", "U+1D518">>,
     <<"Ugrave", "U+00D9">>, <<"Ugrave;", "U+00D9">>, <<"Umacr;", "U+016A">>,
     <<"UnderBar;", "_">>, <<"UnderBrace;", "U+23DF">>, <<"UnderBracket;", "U+23B5">>,
     <<"UnderParenthesis;", "U+23DD">>, <<"Union;", "U+22C3">>, <<"UnionPlus;", "U+228E">>,
     <<"Uogon;", "U+0172">>, <<"Uopf;", "U+1D54C">>, <<"UpArrow;", "U+2191">>,
     <<"UpArrowBar;", "U+2912">>, <<"UpArrowDownArrow;", "U+21C5">>,
     <<"UpDownArrow;", "U+2195">>, <<"UpEquilibrium;", "U+296E">>, <<"UpTee;", "U+22A5">>,
     <<"UpTeeArrow;", "U+21A5">>, <<"Uparrow;", "U+21D1">>, <<"Updownarrow;", "U+21D5">>,
     <<"UpperLeftArrow;", "U+2196">>, <<"UpperRightArrow;", "U+2197">>, <<"Upsi;", "U+03D2">>,
     <<"Upsilon;", "U+03A5">>, <<"Uring;", "U+016E">>, <<"Uscr;", "U+1D4B0">>,
     <<"Utilde;", "U+0168">>, <<"Uuml", "U+00DC">>, <<"Uuml;", "U+00DC">>,
     <<"VDash;", "U+22AB">>, <<"Vbar;", "U+2AEB">>, <<"Vcy;", "U+0412">>,
     <<"Vdash;", "U+22A9">>, <<"Vdashl;", "U+2AE6">>, <<"Vee;", "U+22C1">>,
     <<"Verbar;", "U+2016">>, <<"Vert;", "U+2016">>, <<"VerticalBar;", "U+2223">>,
     <<"VerticalLine;", "|">>, <<"VerticalSeparator;", "U+2758">>,
     <<"VerticalTilde;", "U+2240">>, <<"VeryThinSpace;", "U+200A">>, <<"Vfr;", "U+1D519">>,
     <<"Vopf;", "U+1D54D">>, <<"Vscr;", "U+1D4B1">>, <<"Vvdash;", "U+22AA">>,
     <<"Wcirc;", "U+0174">>, <<"Wedge;", "U+22C0">>, <<"Wfr;", "U+1D51A">>,
     <<"Wopf;", "U+1D54E">>, <<"Wscr;", "U+1D4B2">>, <<"Xfr;", "U+1D51B">>, <<"Xi;", "U+039E">>,
     <<"Xopf;", "U+1D54F">>, <<"Xscr;", "U+1D4B3">>, <<"YAcy;", "U+042F">>,
     <<"YIcy;", "U+0407">>, <<"YUcy;", "U+042E">>, <<"Yacute", "U+00DD">>,
     <<"Yacute;", "U+00DD">>, <<"Ycirc;", "U+0176">>, <<"Ycy;", "U+042B">>,
     <<"Yfr;", "U+1D51C">>, <<"Yopf;", "U+1D550">>, <<"Yscr;", "U+1D4B4">>,
     <<"Yuml;", "U+0178">>, <<"ZHcy;", "U+0416">>, <<"Zacute;", "U+0179">>,
     <<"Zcaron;", "U+017D">>, <<"Zcy;", "U+0417">>, <<"Zdot;", "U+017B">>,
     <<"ZeroWidthSpace;", "U+200B">>, <<"Zeta;", "U+0396">>, <<"Zfr;", "U+2128">>,
     <<"Zopf;", "U+2124">>, <<"Zscr;", "U+1D4B5">>, <<"aacute", "U+00E1">>,
     <<"aacute;", "U+00E1">>, <<"abreve;", "U+0103">>, <<"ac;", "U+223E">>,
     <<"acE;", "U+223E", "U+0333">>, <<"acd;", "U+223F">>, <<"acirc", "U+00E2">>,
     <<"acirc;", "U+00E2">>, <<"acute", "U+00B4">>, <<"acute;", "U+00B4">>,
     <<"acy;", "U+0430">>, <<"aelig", "U+00E6">>, <<"aelig;", "U+00E6">>, <<"af;", "U+2061">>,
     <<"afr;", "U+1D51E">>, <<"agrave", "U+00E0">>, <<"agrave;", "U+00E0">>,
     <<"alefsym;", "U+2135">>, <<"aleph;", "U+2135">>, <<"alpha;", "U+03B1">>,
     <<"amacr;", "U+0101">>, <<"amalg;", "U+2A3F">>, <<"amp", "&">>, <<"amp;", "&">>,
     <<"and;", "U+2227">>, <<"andand;", "U+2A55">>, <<"andd;", "U+2A5C">>,
     <<"andslope;", "U+2A58">>, <<"andv;", "U+2A5A">>, <<"ang;", "U+2220">>,
     <<"ange;", "U+29A4">>, <<"angle;", "U+2220">>, <<"angmsd;", "U+2221">>,
     <<"angmsdaa;", "U+29A8">>, <<"angmsdab;", "U+29A9">>, <<"angmsdac;", "U+29AA">>,
     <<"angmsdad;", "U+29AB">>, <<"angmsdae;", "U+29AC">>, <<"angmsdaf;", "U+29AD">>,
     <<"angmsdag;", "U+29AE">>, <<"angmsdah;", "U+29AF">>, <<"angrt;", "U+221F">>,
     <<"angrtvb;", "U+22BE">>, <<"angrtvbd;", "U+299D">>, <<"angsph;", "U+2222">>,
     <<"angst;", "U+00C5">>, <<"angzarr;", "U+237C">>, <<"aogon;", "U+0105">>,
     <<"aopf;", "U+1D552">>, <<"ap;", "U+2248">>, <<"apE;", "U+2A70">>, <<"apacir;", "U+2A6F">>,
     <<"ape;", "U+224A">>, <<"apid;", "U+224B">>, <<"apos;", "'">>, <<"approx;", "U+2248">>,
     <<"approxeq;", "U+224A">>, <<"aring", "U+00E5">>, <<"aring;", "U+00E5">>,
     <<"ascr;", "U+1D4B6">>, <<"ast;", "*">>, <<"asymp;", "U+2248">>, <<"asympeq;", "U+224D">>,
     <<"atilde", "U+00E3">>, <<"atilde;", "U+00E3">>, <<"auml", "U+00E4">>,
     <<"auml;", "U+00E4">>, <<"awconint;", "U+2233">>, <<"awint;", "U+2A11">>,
     <<"bNot;", "U+2AED">>, <<"backcong;", "U+224C">>, <<"backepsilon;", "U+03F6">>,
     <<"backprime;", "U+2035">>, <<"backsim;", "U+223D">>, <<"backsimeq;", "U+22CD">>,
     <<"barvee;", "U+22BD">>, <<"barwed;", "U+2305">>, <<"barwedge;", "U+2305">>,
     <<"bbrk;", "U+23B5">>, <<"bbrktbrk;", "U+23B6">>, <<"bcong;", "U+224C">>,
     <<"bcy;", "U+0431">>, <<"bdquo;", "U+201E">>, <<"becaus;", "U+2235">>,
     <<"because;", "U+2235">>, <<"bemptyv;", "U+29B0">>, <<"bepsi;", "U+03F6">>,
     <<"bernou;", "U+212C">>, <<"beta;", "U+03B2">>, <<"beth;", "U+2136">>,
     <<"between;", "U+226C">>, <<"bfr;", "U+1D51F">>, <<"bigcap;", "U+22C2">>,
     <<"bigcirc;", "U+25EF">>, <<"bigcup;", "U+22C3">>, <<"bigodot;", "U+2A00">>,
     <<"bigoplus;", "U+2A01">>, <<"bigotimes;", "U+2A02">>, <<"bigsqcup;", "U+2A06">>,
     <<"bigstar;", "U+2605">>, <<"bigtriangledown;", "U+25BD">>, <<"bigtriangleup;", "U+25B3">>,
     <<"biguplus;", "U+2A04">>, <<"bigvee;", "U+22C1">>, <<"bigwedge;", "U+22C0">>,
     <<"bkarow;", "U+290D">>, <<"blacklozenge;", "U+29EB">>, <<"blacksquare;", "U+25AA">>,
     <<"blacktriangle;", "U+25B4">>, <<"blacktriangledown;", "U+25BE">>,
     <<"blacktriangleleft;", "U+25C2">>, <<"blacktriangleright;", "U+25B8">>,
     <<"blank;", "U+2423">>, <<"blk12;", "U+2592">>, <<"blk14;", "U+2591">>,
     <<"blk34;", "U+2593">>, <<"block;", "U+2588">>, <<"bne;", "=", "U+20E5">>,
     <<"bnequiv;", "U+2261", "U+20E5">>, <<"bnot;", "U+2310">>, <<"bopf;", "U+1D553">>,
     <<"bot;", "U+22A5">>, <<"bottom;", "U+22A5">>, <<"bowtie;", "U+22C8">>,
     <<"boxDL;", "U+2557">>, <<"boxDR;", "U+2554">>, <<"boxDl;", "U+2556">>,
     <<"boxDr;", "U+2553">>, <<"boxH;", "U+2550">>, <<"boxHD;", "U+2566">>,
     <<"boxHU;", "U+2569">>, <<"boxHd;", "U+2564">>, <<"boxHu;", "U+2567">>,
     <<"boxUL;", "U+255D">>, <<"boxUR;", "U+255A">>, <<"boxUl;", "U+255C">>,
     <<"boxUr;", "U+2559">>, <<"boxV;", "U+2551">>, <<"boxVH;", "U+256C">>,
     <<"boxVL;", "U+2563">>, <<"boxVR;", "U+2560">>, <<"boxVh;", "U+256B">>,
     <<"boxVl;", "U+2562">>, <<"boxVr;", "U+255F">>, <<"boxbox;", "U+29C9">>,
     <<"boxdL;", "U+2555">>, <<"boxdR;", "U+2552">>, <<"boxdl;", "U+2510">>,
     <<"boxdr;", "U+250C">>, <<"boxh;", "U+2500">>, <<"boxhD;", "U+2565">>,
     <<"boxhU;", "U+2568">>, <<"boxhd;", "U+252C">>, <<"boxhu;", "U+2534">>,
     <<"boxminus;", "U+229F">>, <<"boxplus;", "U+229E">>, <<"boxtimes;", "U+22A0">>,
     <<"boxuL;", "U+255B">>, <<"boxuR;", "U+2558">>, <<"boxul;", "U+2518">>,
     <<"boxur;", "U+2514">>, <<"boxv;", "U+2502">>, <<"boxvH;", "U+256A">>,
     <<"boxvL;", "U+2561">>, <<"boxvR;", "U+255E">>, <<"boxvh;", "U+253C">>,
     <<"boxvl;", "U+2524">>, <<"boxvr;", "U+251C">>, <<"bprime;", "U+2035">>,
     <<"breve;", "U+02D8">>, <<"brvbar", "U+00A6">>, <<"brvbar;", "U+00A6">>,
     <<"bscr;", "U+1D4B7">>, <<"bsemi;", "U+204F">>, <<"bsim;", "U+223D">>,
     <<"bsime;", "U+22CD">>, <<"bsol;", "\\">>, <<"bsolb;", "U+29C5">>,
     <<"bsolhsub;", "U+27C8">>, <<"bull;", "U+2022">>, <<"bullet;", "U+2022">>,
     <<"bump;", "U+224E">>, <<"bumpE;", "U+2AAE">>, <<"bumpe;", "U+224F">>,
     <<"bumpeq;", "U+224F">>, <<"cacute;", "U+0107">>, <<"cap;", "U+2229">>,
     <<"capand;", "U+2A44">>, <<"capbrcup;", "U+2A49">>, <<"capcap;", "U+2A4B">>,
     <<"capcup;", "U+2A47">>, <<"capdot;", "U+2A40">>, <<"caps;", "U+2229", "U+FE00">>,
     <<"caret;", "U+2041">>, <<"caron;", "U+02C7">>, <<"ccaps;", "U+2A4D">>,
     <<"ccaron;", "U+010D">>, <<"ccedil", "U+00E7">>, <<"ccedil;", "U+00E7">>,
     <<"ccirc;", "U+0109">>, <<"ccups;", "U+2A4C">>, <<"ccupssm;", "U+2A50">>,
     <<"cdot;", "U+010B">>, <<"cedil", "U+00B8">>, <<"cedil;", "U+00B8">>,
     <<"cemptyv;", "U+29B2">>, <<"cent", "U+00A2">>, <<"cent;", "U+00A2">>,
     <<"centerdot;", "U+00B7">>, <<"cfr;", "U+1D520">>, <<"chcy;", "U+0447">>,
     <<"check;", "U+2713">>, <<"checkmark;", "U+2713">>, <<"chi;", "U+03C7">>,
     <<"cir;", "U+25CB">>, <<"cirE;", "U+29C3">>, <<"circ;", "U+02C6">>,
     <<"circeq;", "U+2257">>, <<"circlearrowleft;", "U+21BA">>,
     <<"circlearrowright;", "U+21BB">>, <<"circledR;", "U+00AE">>, <<"circledS;", "U+24C8">>,
     <<"circledast;", "U+229B">>, <<"circledcirc;", "U+229A">>, <<"circleddash;", "U+229D">>,
     <<"cire;", "U+2257">>, <<"cirfnint;", "U+2A10">>, <<"cirmid;", "U+2AEF">>,
     <<"cirscir;", "U+29C2">>, <<"clubs;", "U+2663">>, <<"clubsuit;", "U+2663">>,
     <<"colon;", ":">>, <<"colone;", "U+2254">>, <<"coloneq;", "U+2254">>, <<"comma;", ",">>,
     <<"commat;", "@">>, <<"comp;", "U+2201">>, <<"compfn;", "U+2218">>,
     <<"complement;", "U+2201">>, <<"complexes;", "U+2102">>, <<"cong;", "U+2245">>,
     <<"congdot;", "U+2A6D">>, <<"conint;", "U+222E">>, <<"copf;", "U+1D554">>,
     <<"coprod;", "U+2210">>, <<"copy", "U+00A9">>, <<"copy;", "U+00A9">>,
     <<"copysr;", "U+2117">>, <<"crarr;", "U+21B5">>, <<"cross;", "U+2717">>,
     <<"cscr;", "U+1D4B8">>, <<"csub;", "U+2ACF">>, <<"csube;", "U+2AD1">>,
     <<"csup;", "U+2AD0">>, <<"csupe;", "U+2AD2">>, <<"ctdot;", "U+22EF">>,
     <<"cudarrl;", "U+2938">>, <<"cudarrr;", "U+2935">>, <<"cuepr;", "U+22DE">>,
     <<"cuesc;", "U+22DF">>, <<"cularr;", "U+21B6">>, <<"cularrp;", "U+293D">>,
     <<"cup;", "U+222A">>, <<"cupbrcap;", "U+2A48">>, <<"cupcap;", "U+2A46">>,
     <<"cupcup;", "U+2A4A">>, <<"cupdot;", "U+228D">>, <<"cupor;", "U+2A45">>,
     <<"cups;", "U+222A", "U+FE00">>, <<"curarr;", "U+21B7">>, <<"curarrm;", "U+293C">>,
     <<"curlyeqprec;", "U+22DE">>, <<"curlyeqsucc;", "U+22DF">>, <<"curlyvee;", "U+22CE">>,
     <<"curlywedge;", "U+22CF">>, <<"curren", "U+00A4">>, <<"curren;", "U+00A4">>,
     <<"curvearrowleft;", "U+21B6">>, <<"curvearrowright;", "U+21B7">>, <<"cuvee;", "U+22CE">>,
     <<"cuwed;", "U+22CF">>, <<"cwconint;", "U+2232">>, <<"cwint;", "U+2231">>,
     <<"cylcty;", "U+232D">>, <<"dArr;", "U+21D3">>, <<"dHar;", "U+2965">>,
     <<"dagger;", "U+2020">>, <<"daleth;", "U+2138">>, <<"darr;", "U+2193">>,
     <<"dash;", "U+2010">>, <<"dashv;", "U+22A3">>, <<"dbkarow;", "U+290F">>,
     <<"dblac;", "U+02DD">>, <<"dcaron;", "U+010F">>, <<"dcy;", "U+0434">>, <<"dd;", "U+2146">>,
     <<"ddagger;", "U+2021">>, <<"ddarr;", "U+21CA">>, <<"ddotseq;", "U+2A77">>,
     <<"deg", "U+00B0">>, <<"deg;", "U+00B0">>, <<"delta;", "U+03B4">>,
     <<"demptyv;", "U+29B1">>, <<"dfisht;", "U+297F">>, <<"dfr;", "U+1D521">>,
     <<"dharl;", "U+21C3">>, <<"dharr;", "U+21C2">>, <<"diam;", "U+22C4">>,
     <<"diamond;", "U+22C4">>, <<"diamondsuit;", "U+2666">>, <<"diams;", "U+2666">>,
     <<"die;", "U+00A8">>, <<"digamma;", "U+03DD">>, <<"disin;", "U+22F2">>,
     <<"div;", "U+00F7">>, <<"divide", "U+00F7">>, <<"divide;", "U+00F7">>,
     <<"divideontimes;", "U+22C7">>, <<"divonx;", "U+22C7">>, <<"djcy;", "U+0452">>,
     <<"dlcorn;", "U+231E">>, <<"dlcrop;", "U+230D">>, <<"dollar;", "$">>,
     <<"dopf;", "U+1D555">>, <<"dot;", "U+02D9">>, <<"doteq;", "U+2250">>,
     <<"doteqdot;", "U+2251">>, <<"dotminus;", "U+2238">>, <<"dotplus;", "U+2214">>,
     <<"dotsquare;", "U+22A1">>, <<"doublebarwedge;", "U+2306">>, <<"downarrow;", "U+2193">>,
     <<"downdownarrows;", "U+21CA">>, <<"downharpoonleft;", "U+21C3">>,
     <<"downharpoonright;", "U+21C2">>, <<"drbkarow;", "U+2910">>, <<"drcorn;", "U+231F">>,
     <<"drcrop;", "U+230C">>, <<"dscr;", "U+1D4B9">>, <<"dscy;", "U+0455">>,
     <<"dsol;", "U+29F6">>, <<"dstrok;", "U+0111">>, <<"dtdot;", "U+22F1">>,
     <<"dtri;", "U+25BF">>, <<"dtrif;", "U+25BE">>, <<"duarr;", "U+21F5">>,
     <<"duhar;", "U+296F">>, <<"dwangle;", "U+29A6">>, <<"dzcy;", "U+045F">>,
     <<"dzigrarr;", "U+27FF">>, <<"eDDot;", "U+2A77">>, <<"eDot;", "U+2251">>,
     <<"eacute", "U+00E9">>, <<"eacute;", "U+00E9">>, <<"easter;", "U+2A6E">>,
     <<"ecaron;", "U+011B">>, <<"ecir;", "U+2256">>, <<"ecirc", "U+00EA">>,
     <<"ecirc;", "U+00EA">>, <<"ecolon;", "U+2255">>, <<"ecy;", "U+044D">>,
     <<"edot;", "U+0117">>, <<"ee;", "U+2147">>, <<"efDot;", "U+2252">>, <<"efr;", "U+1D522">>,
     <<"eg;", "U+2A9A">>, <<"egrave", "U+00E8">>, <<"egrave;", "U+00E8">>, <<"egs;", "U+2A96">>,
     <<"egsdot;", "U+2A98">>, <<"el;", "U+2A99">>, <<"elinters;", "U+23E7">>,
     <<"ell;", "U+2113">>, <<"els;", "U+2A95">>, <<"elsdot;", "U+2A97">>,
     <<"emacr;", "U+0113">>, <<"empty;", "U+2205">>, <<"emptyset;", "U+2205">>,
     <<"emptyv;", "U+2205">>, <<"emsp13;", "U+2004">>, <<"emsp14;", "U+2005">>,
     <<"emsp;", "U+2003">>, <<"eng;", "U+014B">>, <<"ensp;", "U+2002">>, <<"eogon;", "U+0119">>,
     <<"eopf;", "U+1D556">>, <<"epar;", "U+22D5">>, <<"eparsl;", "U+29E3">>,
     <<"eplus;", "U+2A71">>, <<"epsi;", "U+03B5">>, <<"epsilon;", "U+03B5">>,
     <<"epsiv;", "U+03F5">>, <<"eqcirc;", "U+2256">>, <<"eqcolon;", "U+2255">>,
     <<"eqsim;", "U+2242">>, <<"eqslantgtr;", "U+2A96">>, <<"eqslantless;", "U+2A95">>,
     <<"equals;", "=">>, <<"equest;", "U+225F">>, <<"equiv;", "U+2261">>,
     <<"equivDD;", "U+2A78">>, <<"eqvparsl;", "U+29E5">>, <<"erDot;", "U+2253">>,
     <<"erarr;", "U+2971">>, <<"escr;", "U+212F">>, <<"esdot;", "U+2250">>,
     <<"esim;", "U+2242">>, <<"eta;", "U+03B7">>, <<"eth", "U+00F0">>, <<"eth;", "U+00F0">>,
     <<"euml", "U+00EB">>, <<"euml;", "U+00EB">>, <<"euro;", "U+20AC">>, <<"excl;", "!">>,
     <<"exist;", "U+2203">>, <<"expectation;", "U+2130">>, <<"exponentiale;", "U+2147">>,
     <<"fallingdotseq;", "U+2252">>, <<"fcy;", "U+0444">>, <<"female;", "U+2640">>,
     <<"ffilig;", "U+FB03">>, <<"fflig;", "U+FB00">>, <<"ffllig;", "U+FB04">>,
     <<"ffr;", "U+1D523">>, <<"filig;", "U+FB01">>, <<"fjlig;", "f", "j">>,
     <<"flat;", "U+266D">>, <<"fllig;", "U+FB02">>, <<"fltns;", "U+25B1">>,
     <<"fnof;", "U+0192">>, <<"fopf;", "U+1D557">>, <<"forall;", "U+2200">>,
     <<"fork;", "U+22D4">>, <<"forkv;", "U+2AD9">>, <<"fpartint;", "U+2A0D">>,
     <<"frac12", "U+00BD">>, <<"frac12;", "U+00BD">>, <<"frac13;", "U+2153">>,
     <<"frac14", "U+00BC">>, <<"frac14;", "U+00BC">>, <<"frac15;", "U+2155">>,
     <<"frac16;", "U+2159">>, <<"frac18;", "U+215B">>, <<"frac23;", "U+2154">>,
     <<"frac25;", "U+2156">>, <<"frac34", "U+00BE">>, <<"frac34;", "U+00BE">>,
     <<"frac35;", "U+2157">>, <<"frac38;", "U+215C">>, <<"frac45;", "U+2158">>,
     <<"frac56;", "U+215A">>, <<"frac58;", "U+215D">>, <<"frac78;", "U+215E">>,
     <<"frasl;", "U+2044">>, <<"frown;", "U+2322">>, <<"fscr;", "U+1D4BB">>,
     <<"gE;", "U+2267">>, <<"gEl;", "U+2A8C">>, <<"gacute;", "U+01F5">>, <<"gamma;", "U+03B3">>,
     <<"gammad;", "U+03DD">>, <<"gap;", "U+2A86">>, <<"gbreve;", "U+011F">>,
     <<"gcirc;", "U+011D">>, <<"gcy;", "U+0433">>, <<"gdot;", "U+0121">>, <<"ge;", "U+2265">>,
     <<"gel;", "U+22DB">>, <<"geq;", "U+2265">>, <<"geqq;", "U+2267">>,
     <<"geqslant;", "U+2A7E">>, <<"ges;", "U+2A7E">>, <<"gescc;", "U+2AA9">>,
     <<"gesdot;", "U+2A80">>, <<"gesdoto;", "U+2A82">>, <<"gesdotol;", "U+2A84">>,
     <<"gesl;", "U+22DB", "U+FE00">>, <<"gesles;", "U+2A94">>, <<"gfr;", "U+1D524">>,
     <<"gg;", "U+226B">>, <<"ggg;", "U+22D9">>, <<"gimel;", "U+2137">>, <<"gjcy;", "U+0453">>,
     <<"gl;", "U+2277">>, <<"glE;", "U+2A92">>, <<"gla;", "U+2AA5">>, <<"glj;", "U+2AA4">>,
     <<"gnE;", "U+2269">>, <<"gnap;", "U+2A8A">>, <<"gnapprox;", "U+2A8A">>,
     <<"gne;", "U+2A88">>, <<"gneq;", "U+2A88">>, <<"gneqq;", "U+2269">>,
     <<"gnsim;", "U+22E7">>, <<"gopf;", "U+1D558">>, <<"grave;", "U+0060">>,
     <<"gscr;", "U+210A">>, <<"gsim;", "U+2273">>, <<"gsime;", "U+2A8E">>,
     <<"gsiml;", "U+2A90">>, <<"gt", ">">>, <<"gt;", ">">>, <<"gtcc;", "U+2AA7">>,
     <<"gtcir;", "U+2A7A">>, <<"gtdot;", "U+22D7">>, <<"gtlPar;", "U+2995">>,
     <<"gtquest;", "U+2A7C">>, <<"gtrapprox;", "U+2A86">>, <<"gtrarr;", "U+2978">>,
     <<"gtrdot;", "U+22D7">>, <<"gtreqless;", "U+22DB">>, <<"gtreqqless;", "U+2A8C">>,
     <<"gtrless;", "U+2277">>, <<"gtrsim;", "U+2273">>, <<"gvertneqq;", "U+2269", "U+FE00">>,
     <<"gvnE;", "U+2269", "U+FE00">>, <<"hArr;", "U+21D4">>, <<"hairsp;", "U+200A">>,
     <<"half;", "U+00BD">>, <<"hamilt;", "U+210B">>, <<"hardcy;", "U+044A">>,
     <<"harr;", "U+2194">>, <<"harrcir;", "U+2948">>, <<"harrw;", "U+21AD">>,
     <<"hbar;", "U+210F">>, <<"hcirc;", "U+0125">>, <<"hearts;", "U+2665">>,
     <<"heartsuit;", "U+2665">>, <<"hellip;", "U+2026">>, <<"hercon;", "U+22B9">>,
     <<"hfr;", "U+1D525">>, <<"hksearow;", "U+2925">>, <<"hkswarow;", "U+2926">>,
     <<"hoarr;", "U+21FF">>, <<"homtht;", "U+223B">>, <<"hookleftarrow;", "U+21A9">>,
     <<"hookrightarrow;", "U+21AA">>, <<"hopf;", "U+1D559">>, <<"horbar;", "U+2015">>,
     <<"hscr;", "U+1D4BD">>, <<"hslash;", "U+210F">>, <<"hstrok;", "U+0127">>,
     <<"hybull;", "U+2043">>, <<"hyphen;", "U+2010">>, <<"iacute", "U+00ED">>,
     <<"iacute;", "U+00ED">>, <<"ic;", "U+2063">>, <<"icirc", "U+00EE">>,
     <<"icirc;", "U+00EE">>, <<"icy;", "U+0438">>, <<"iecy;", "U+0435">>, <<"iexcl", "U+00A1">>,
     <<"iexcl;", "U+00A1">>, <<"iff;", "U+21D4">>, <<"ifr;", "U+1D526">>,
     <<"igrave", "U+00EC">>, <<"igrave;", "U+00EC">>, <<"ii;", "U+2148">>,
     <<"iiiint;", "U+2A0C">>, <<"iiint;", "U+222D">>, <<"iinfin;", "U+29DC">>,
     <<"iiota;", "U+2129">>, <<"ijlig;", "U+0133">>, <<"imacr;", "U+012B">>,
     <<"image;", "U+2111">>, <<"imagline;", "U+2110">>, <<"imagpart;", "U+2111">>,
     <<"imath;", "U+0131">>, <<"imof;", "U+22B7">>, <<"imped;", "U+01B5">>, <<"in;", "U+2208">>,
     <<"incare;", "U+2105">>, <<"infin;", "U+221E">>, <<"infintie;", "U+29DD">>,
     <<"inodot;", "U+0131">>, <<"int;", "U+222B">>, <<"intcal;", "U+22BA">>,
     <<"integers;", "U+2124">>, <<"intercal;", "U+22BA">>, <<"intlarhk;", "U+2A17">>,
     <<"intprod;", "U+2A3C">>, <<"iocy;", "U+0451">>, <<"iogon;", "U+012F">>,
     <<"iopf;", "U+1D55A">>, <<"iota;", "U+03B9">>, <<"iprod;", "U+2A3C">>,
     <<"iquest", "U+00BF">>, <<"iquest;", "U+00BF">>, <<"iscr;", "U+1D4BE">>,
     <<"isin;", "U+2208">>, <<"isinE;", "U+22F9">>, <<"isindot;", "U+22F5">>,
     <<"isins;", "U+22F4">>, <<"isinsv;", "U+22F3">>, <<"isinv;", "U+2208">>,
     <<"it;", "U+2062">>, <<"itilde;", "U+0129">>, <<"iukcy;", "U+0456">>, <<"iuml", "U+00EF">>,
     <<"iuml;", "U+00EF">>, <<"jcirc;", "U+0135">>, <<"jcy;", "U+0439">>, <<"jfr;", "U+1D527">>,
     <<"jmath;", "U+0237">>, <<"jopf;", "U+1D55B">>, <<"jscr;", "U+1D4BF">>,
     <<"jsercy;", "U+0458">>, <<"jukcy;", "U+0454">>, <<"kappa;", "U+03BA">>,
     <<"kappav;", "U+03F0">>, <<"kcedil;", "U+0137">>, <<"kcy;", "U+043A">>,
     <<"kfr;", "U+1D528">>, <<"kgreen;", "U+0138">>, <<"khcy;", "U+0445">>,
     <<"kjcy;", "U+045C">>, <<"kopf;", "U+1D55C">>, <<"kscr;", "U+1D4C0">>,
     <<"lAarr;", "U+21DA">>, <<"lArr;", "U+21D0">>, <<"lAtail;", "U+291B">>,
     <<"lBarr;", "U+290E">>, <<"lE;", "U+2266">>, <<"lEg;", "U+2A8B">>, <<"lHar;", "U+2962">>,
     <<"lacute;", "U+013A">>, <<"laemptyv;", "U+29B4">>, <<"lagran;", "U+2112">>,
     <<"lambda;", "U+03BB">>, <<"lang;", "U+27E8">>, <<"langd;", "U+2991">>,
     <<"langle;", "U+27E8">>, <<"lap;", "U+2A85">>, <<"laquo", "U+00AB">>,
     <<"laquo;", "U+00AB">>, <<"larr;", "U+2190">>, <<"larrb;", "U+21E4">>,
     <<"larrbfs;", "U+291F">>, <<"larrfs;", "U+291D">>, <<"larrhk;", "U+21A9">>,
     <<"larrlp;", "U+21AB">>, <<"larrpl;", "U+2939">>, <<"larrsim;", "U+2973">>,
     <<"larrtl;", "U+21A2">>, <<"lat;", "U+2AAB">>, <<"latail;", "U+2919">>,
     <<"late;", "U+2AAD">>, <<"lates;", "U+2AAD", "U+FE00">>, <<"lbarr;", "U+290C">>,
     <<"lbbrk;", "U+2772">>, <<"lbrace;", "{">>, <<"lbrack;", "[">>, <<"lbrke;", "U+298B">>,
     <<"lbrksld;", "U+298F">>, <<"lbrkslu;", "U+298D">>, <<"lcaron;", "U+013E">>,
     <<"lcedil;", "U+013C">>, <<"lceil;", "U+2308">>, <<"lcub;", "{">>, <<"lcy;", "U+043B">>,
     <<"ldca;", "U+2936">>, <<"ldquo;", "U+201C">>, <<"ldquor;", "U+201E">>,
     <<"ldrdhar;", "U+2967">>, <<"ldrushar;", "U+294B">>, <<"ldsh;", "U+21B2">>,
     <<"le;", "U+2264">>, <<"leftarrow;", "U+2190">>, <<"leftarrowtail;", "U+21A2">>,
     <<"leftharpoondown;", "U+21BD">>, <<"leftharpoonup;", "U+21BC">>,
     <<"leftleftarrows;", "U+21C7">>, <<"leftrightarrow;", "U+2194">>,
     <<"leftrightarrows;", "U+21C6">>, <<"leftrightharpoons;", "U+21CB">>,
     <<"leftrightsquigarrow;", "U+21AD">>, <<"leftthreetimes;", "U+22CB">>,
     <<"leg;", "U+22DA">>, <<"leq;", "U+2264">>, <<"leqq;", "U+2266">>,
     <<"leqslant;", "U+2A7D">>, <<"les;", "U+2A7D">>, <<"lescc;", "U+2AA8">>,
     <<"lesdot;", "U+2A7F">>, <<"lesdoto;", "U+2A81">>, <<"lesdotor;", "U+2A83">>,
     <<"lesg;", "U+22DA", "U+FE00">>, <<"lesges;", "U+2A93">>, <<"lessapprox;", "U+2A85">>,
     <<"lessdot;", "U+22D6">>, <<"lesseqgtr;", "U+22DA">>, <<"lesseqqgtr;", "U+2A8B">>,
     <<"lessgtr;", "U+2276">>, <<"lesssim;", "U+2272">>, <<"lfisht;", "U+297C">>,
     <<"lfloor;", "U+230A">>, <<"lfr;", "U+1D529">>, <<"lg;", "U+2276">>, <<"lgE;", "U+2A91">>,
     <<"lhard;", "U+21BD">>, <<"lharu;", "U+21BC">>, <<"lharul;", "U+296A">>,
     <<"lhblk;", "U+2584">>, <<"ljcy;", "U+0459">>, <<"ll;", "U+226A">>, <<"llarr;", "U+21C7">>,
     <<"llcorner;", "U+231E">>, <<"llhard;", "U+296B">>, <<"lltri;", "U+25FA">>,
     <<"lmidot;", "U+0140">>, <<"lmoust;", "U+23B0">>, <<"lmoustache;", "U+23B0">>,
     <<"lnE;", "U+2268">>, <<"lnap;", "U+2A89">>, <<"lnapprox;", "U+2A89">>,
     <<"lne;", "U+2A87">>, <<"lneq;", "U+2A87">>, <<"lneqq;", "U+2268">>,
     <<"lnsim;", "U+22E6">>, <<"loang;", "U+27EC">>, <<"loarr;", "U+21FD">>,
     <<"lobrk;", "U+27E6">>, <<"longleftarrow;", "U+27F5">>,
     <<"longleftrightarrow;", "U+27F7">>, <<"longmapsto;", "U+27FC">>,
     <<"longrightarrow;", "U+27F6">>, <<"looparrowleft;", "U+21AB">>,
     <<"looparrowright;", "U+21AC">>, <<"lopar;", "U+2985">>, <<"lopf;", "U+1D55D">>,
     <<"loplus;", "U+2A2D">>, <<"lotimes;", "U+2A34">>, <<"lowast;", "U+2217">>,
     <<"lowbar;", "_">>, <<"loz;", "U+25CA">>, <<"lozenge;", "U+25CA">>, <<"lozf;", "U+29EB">>,
     <<"lpar;", "(">>, <<"lparlt;", "U+2993">>, <<"lrarr;", "U+21C6">>,
     <<"lrcorner;", "U+231F">>, <<"lrhar;", "U+21CB">>, <<"lrhard;", "U+296D">>,
     <<"lrm;", "U+200E">>, <<"lrtri;", "U+22BF">>, <<"lsaquo;", "U+2039">>,
     <<"lscr;", "U+1D4C1">>, <<"lsh;", "U+21B0">>, <<"lsim;", "U+2272">>,
     <<"lsime;", "U+2A8D">>, <<"lsimg;", "U+2A8F">>, <<"lsqb;", "[">>, <<"lsquo;", "U+2018">>,
     <<"lsquor;", "U+201A">>, <<"lstrok;", "U+0142">>, <<"lt", "<">>, <<"lt;", "<">>,
     <<"ltcc;", "U+2AA6">>, <<"ltcir;", "U+2A79">>, <<"ltdot;", "U+22D6">>,
     <<"lthree;", "U+22CB">>, <<"ltimes;", "U+22C9">>, <<"ltlarr;", "U+2976">>,
     <<"ltquest;", "U+2A7B">>, <<"ltrPar;", "U+2996">>, <<"ltri;", "U+25C3">>,
     <<"ltrie;", "U+22B4">>, <<"ltrif;", "U+25C2">>, <<"lurdshar;", "U+294A">>,
     <<"luruhar;", "U+2966">>, <<"lvertneqq;", "U+2268", "U+FE00">>,
     <<"lvnE;", "U+2268", "U+FE00">>, <<"mDDot;", "U+223A">>, <<"macr", "U+00AF">>,
     <<"macr;", "U+00AF">>, <<"male;", "U+2642">>, <<"malt;", "U+2720">>,
     <<"maltese;", "U+2720">>, <<"map;", "U+21A6">>, <<"mapsto;", "U+21A6">>,
     <<"mapstodown;", "U+21A7">>, <<"mapstoleft;", "U+21A4">>, <<"mapstoup;", "U+21A5">>,
     <<"marker;", "U+25AE">>, <<"mcomma;", "U+2A29">>, <<"mcy;", "U+043C">>,
     <<"mdash;", "U+2014">>, <<"measuredangle;", "U+2221">>, <<"mfr;", "U+1D52A">>,
     <<"mho;", "U+2127">>, <<"micro", "U+00B5">>, <<"micro;", "U+00B5">>, <<"mid;", "U+2223">>,
     <<"midast;", "*">>, <<"midcir;", "U+2AF0">>, <<"middot", "U+00B7">>,
     <<"middot;", "U+00B7">>, <<"minus;", "U+2212">>, <<"minusb;", "U+229F">>,
     <<"minusd;", "U+2238">>, <<"minusdu;", "U+2A2A">>, <<"mlcp;", "U+2ADB">>,
     <<"mldr;", "U+2026">>, <<"mnplus;", "U+2213">>, <<"models;", "U+22A7">>,
     <<"mopf;", "U+1D55E">>, <<"mp;", "U+2213">>, <<"mscr;", "U+1D4C2">>,
     <<"mstpos;", "U+223E">>, <<"mu;", "U+03BC">>, <<"multimap;", "U+22B8">>,
     <<"mumap;", "U+22B8">>, <<"nGg;", "U+22D9", "U+0338">>, <<"nGt;", "U+226B", "U+20D2">>,
     <<"nGtv;", "U+226B", "U+0338">>, <<"nLeftarrow;", "U+21CD">>,
     <<"nLeftrightarrow;", "U+21CE">>, <<"nLl;", "U+22D8", "U+0338">>,
     <<"nLt;", "U+226A", "U+20D2">>, <<"nLtv;", "U+226A", "U+0338">>,
     <<"nRightarrow;", "U+21CF">>, <<"nVDash;", "U+22AF">>, <<"nVdash;", "U+22AE">>,
     <<"nabla;", "U+2207">>, <<"nacute;", "U+0144">>, <<"nang;", "U+2220", "U+20D2">>,
     <<"nap;", "U+2249">>, <<"napE;", "U+2A70", "U+0338">>, <<"napid;", "U+224B", "U+0338">>,
     <<"napos;", "U+0149">>, <<"napprox;", "U+2249">>, <<"natur;", "U+266E">>,
     <<"natural;", "U+266E">>, <<"naturals;", "U+2115">>, <<"nbsp", "U+00A0">>,
     <<"nbsp;", "U+00A0">>, <<"nbump;", "U+224E", "U+0338">>, <<"nbumpe;", "U+224F", "U+0338">>,
     <<"ncap;", "U+2A43">>, <<"ncaron;", "U+0148">>, <<"ncedil;", "U+0146">>,
     <<"ncong;", "U+2247">>, <<"ncongdot;", "U+2A6D", "U+0338">>, <<"ncup;", "U+2A42">>,
     <<"ncy;", "U+043D">>, <<"ndash;", "U+2013">>, <<"ne;", "U+2260">>, <<"neArr;", "U+21D7">>,
     <<"nearhk;", "U+2924">>, <<"nearr;", "U+2197">>, <<"nearrow;", "U+2197">>,
     <<"nedot;", "U+2250", "U+0338">>, <<"nequiv;", "U+2262">>, <<"nesear;", "U+2928">>,
     <<"nesim;", "U+2242", "U+0338">>, <<"nexist;", "U+2204">>, <<"nexists;", "U+2204">>,
     <<"nfr;", "U+1D52B">>, <<"ngE;", "U+2267", "U+0338">>, <<"nge;", "U+2271">>,
     <<"ngeq;", "U+2271">>, <<"ngeqq;", "U+2267", "U+0338">>,
     <<"ngeqslant;", "U+2A7E", "U+0338">>, <<"nges;", "U+2A7E", "U+0338">>,
     <<"ngsim;", "U+2275">>, <<"ngt;", "U+226F">>, <<"ngtr;", "U+226F">>,
     <<"nhArr;", "U+21CE">>, <<"nharr;", "U+21AE">>, <<"nhpar;", "U+2AF2">>,
     <<"ni;", "U+220B">>, <<"nis;", "U+22FC">>, <<"nisd;", "U+22FA">>, <<"niv;", "U+220B">>,
     <<"njcy;", "U+045A">>, <<"nlArr;", "U+21CD">>, <<"nlE;", "U+2266", "U+0338">>,
     <<"nlarr;", "U+219A">>, <<"nldr;", "U+2025">>, <<"nle;", "U+2270">>,
     <<"nleftarrow;", "U+219A">>, <<"nleftrightarrow;", "U+21AE">>, <<"nleq;", "U+2270">>,
     <<"nleqq;", "U+2266", "U+0338">>, <<"nleqslant;", "U+2A7D", "U+0338">>,
     <<"nles;", "U+2A7D", "U+0338">>, <<"nless;", "U+226E">>, <<"nlsim;", "U+2274">>,
     <<"nlt;", "U+226E">>, <<"nltri;", "U+22EA">>, <<"nltrie;", "U+22EC">>,
     <<"nmid;", "U+2224">>, <<"nopf;", "U+1D55F">>, <<"not", "U+00AC">>, <<"not;", "U+00AC">>,
     <<"notin;", "U+2209">>, <<"notinE;", "U+22F9", "U+0338">>,
     <<"notindot;", "U+22F5", "U+0338">>, <<"notinva;", "U+2209">>, <<"notinvb;", "U+22F7">>,
     <<"notinvc;", "U+22F6">>, <<"notni;", "U+220C">>, <<"notniva;", "U+220C">>,
     <<"notnivb;", "U+22FE">>, <<"notnivc;", "U+22FD">>, <<"npar;", "U+2226">>,
     <<"nparallel;", "U+2226">>, <<"nparsl;", "U+2AFD", "U+20E5">>,
     <<"npart;", "U+2202", "U+0338">>, <<"npolint;", "U+2A14">>, <<"npr;", "U+2280">>,
     <<"nprcue;", "U+22E0">>, <<"npre;", "U+2AAF", "U+0338">>, <<"nprec;", "U+2280">>,
     <<"npreceq;", "U+2AAF", "U+0338">>, <<"nrArr;", "U+21CF">>, <<"nrarr;", "U+219B">>,
     <<"nrarrc;", "U+2933", "U+0338">>, <<"nrarrw;", "U+219D", "U+0338">>,
     <<"nrightarrow;", "U+219B">>, <<"nrtri;", "U+22EB">>, <<"nrtrie;", "U+22ED">>,
     <<"nsc;", "U+2281">>, <<"nsccue;", "U+22E1">>, <<"nsce;", "U+2AB0", "U+0338">>,
     <<"nscr;", "U+1D4C3">>, <<"nshortmid;", "U+2224">>, <<"nshortparallel;", "U+2226">>,
     <<"nsim;", "U+2241">>, <<"nsime;", "U+2244">>, <<"nsimeq;", "U+2244">>,
     <<"nsmid;", "U+2224">>, <<"nspar;", "U+2226">>, <<"nsqsube;", "U+22E2">>,
     <<"nsqsupe;", "U+22E3">>, <<"nsub;", "U+2284">>, <<"nsubE;", "U+2AC5", "U+0338">>,
     <<"nsube;", "U+2288">>, <<"nsubset;", "U+2282", "U+20D2">>, <<"nsubseteq;", "U+2288">>,
     <<"nsubseteqq;", "U+2AC5", "U+0338">>, <<"nsucc;", "U+2281">>,
     <<"nsucceq;", "U+2AB0", "U+0338">>, <<"nsup;", "U+2285">>,
     <<"nsupE;", "U+2AC6", "U+0338">>, <<"nsupe;", "U+2289">>,
     <<"nsupset;", "U+2283", "U+20D2">>, <<"nsupseteq;", "U+2289">>,
     <<"nsupseteqq;", "U+2AC6", "U+0338">>, <<"ntgl;", "U+2279">>, <<"ntilde", "U+00F1">>,
     <<"ntilde;", "U+00F1">>, <<"ntlg;", "U+2278">>, <<"ntriangleleft;", "U+22EA">>,
     <<"ntrianglelefteq;", "U+22EC">>, <<"ntriangleright;", "U+22EB">>,
     <<"ntrianglerighteq;", "U+22ED">>, <<"nu;", "U+03BD">>, <<"num;", "#">>,
     <<"numero;", "U+2116">>, <<"numsp;", "U+2007">>, <<"nvDash;", "U+22AD">>,
     <<"nvHarr;", "U+2904">>, <<"nvap;", "U+224D", "U+20D2">>, <<"nvdash;", "U+22AC">>,
     <<"nvge;", "U+2265", "U+20D2">>, <<"nvgt;", ">", "U+20D2">>, <<"nvinfin;", "U+29DE">>,
     <<"nvlArr;", "U+2902">>, <<"nvle;", "U+2264", "U+20D2">>, <<"nvlt;", "<", "U+20D2">>,
     <<"nvltrie;", "U+22B4", "U+20D2">>, <<"nvrArr;", "U+2903">>,
     <<"nvrtrie;", "U+22B5", "U+20D2">>, <<"nvsim;", "U+223C", "U+20D2">>,
     <<"nwArr;", "U+21D6">>, <<"nwarhk;", "U+2923">>, <<"nwarr;", "U+2196">>,
     <<"nwarrow;", "U+2196">>, <<"nwnear;", "U+2927">>, <<"oS;", "U+24C8">>,
     <<"oacute", "U+00F3">>, <<"oacute;", "U+00F3">>, <<"oast;", "U+229B">>,
     <<"ocir;", "U+229A">>, <<"ocirc", "U+00F4">>, <<"ocirc;", "U+00F4">>, <<"ocy;", "U+043E">>,
     <<"odash;", "U+229D">>, <<"odblac;", "U+0151">>, <<"odiv;", "U+2A38">>,
     <<"odot;", "U+2299">>, <<"odsold;", "U+29BC">>, <<"oelig;", "U+0153">>,
     <<"ofcir;", "U+29BF">>, <<"ofr;", "U+1D52C">>, <<"ogon;", "U+02DB">>,
     <<"ograve", "U+00F2">>, <<"ograve;", "U+00F2">>, <<"ogt;", "U+29C1">>,
     <<"ohbar;", "U+29B5">>, <<"ohm;", "U+03A9">>, <<"oint;", "U+222E">>,
     <<"olarr;", "U+21BA">>, <<"olcir;", "U+29BE">>, <<"olcross;", "U+29BB">>,
     <<"oline;", "U+203E">>, <<"olt;", "U+29C0">>, <<"omacr;", "U+014D">>,
     <<"omega;", "U+03C9">>, <<"omicron;", "U+03BF">>, <<"omid;", "U+29B6">>,
     <<"ominus;", "U+2296">>, <<"oopf;", "U+1D560">>, <<"opar;", "U+29B7">>,
     <<"operp;", "U+29B9">>, <<"oplus;", "U+2295">>, <<"or;", "U+2228">>,
     <<"orarr;", "U+21BB">>, <<"ord;", "U+2A5D">>, <<"order;", "U+2134">>,
     <<"orderof;", "U+2134">>, <<"ordf", "U+00AA">>, <<"ordf;", "U+00AA">>,
     <<"ordm", "U+00BA">>, <<"ordm;", "U+00BA">>, <<"origof;", "U+22B6">>,
     <<"oror;", "U+2A56">>, <<"orslope;", "U+2A57">>, <<"orv;", "U+2A5B">>,
     <<"oscr;", "U+2134">>, <<"oslash", "U+00F8">>, <<"oslash;", "U+00F8">>,
     <<"osol;", "U+2298">>, <<"otilde", "U+00F5">>, <<"otilde;", "U+00F5">>,
     <<"otimes;", "U+2297">>, <<"otimesas;", "U+2A36">>, <<"ouml", "U+00F6">>,
     <<"ouml;", "U+00F6">>, <<"ovbar;", "U+233D">>, <<"par;", "U+2225">>, <<"para", "U+00B6">>,
     <<"para;", "U+00B6">>, <<"parallel;", "U+2225">>, <<"parsim;", "U+2AF3">>,
     <<"parsl;", "U+2AFD">>, <<"part;", "U+2202">>, <<"pcy;", "U+043F">>, <<"percnt;", "%">>,
     <<"period;", ".">>, <<"permil;", "U+2030">>, <<"perp;", "U+22A5">>,
     <<"pertenk;", "U+2031">>, <<"pfr;", "U+1D52D">>, <<"phi;", "U+03C6">>,
     <<"phiv;", "U+03D5">>, <<"phmmat;", "U+2133">>, <<"phone;", "U+260E">>,
     <<"pi;", "U+03C0">>, <<"pitchfork;", "U+22D4">>, <<"piv;", "U+03D6">>,
     <<"planck;", "U+210F">>, <<"planckh;", "U+210E">>, <<"plankv;", "U+210F">>,
     <<"plus;", "+">>, <<"plusacir;", "U+2A23">>, <<"plusb;", "U+229E">>,
     <<"pluscir;", "U+2A22">>, <<"plusdo;", "U+2214">>, <<"plusdu;", "U+2A25">>,
     <<"pluse;", "U+2A72">>, <<"plusmn", "U+00B1">>, <<"plusmn;", "U+00B1">>,
     <<"plussim;", "U+2A26">>, <<"plustwo;", "U+2A27">>, <<"pm;", "U+00B1">>,
     <<"pointint;", "U+2A15">>, <<"popf;", "U+1D561">>, <<"pound", "U+00A3">>,
     <<"pound;", "U+00A3">>, <<"pr;", "U+227A">>, <<"prE;", "U+2AB3">>, <<"prap;", "U+2AB7">>,
     <<"prcue;", "U+227C">>, <<"pre;", "U+2AAF">>, <<"prec;", "U+227A">>,
     <<"precapprox;", "U+2AB7">>, <<"preccurlyeq;", "U+227C">>, <<"preceq;", "U+2AAF">>,
     <<"precnapprox;", "U+2AB9">>, <<"precneqq;", "U+2AB5">>, <<"precnsim;", "U+22E8">>,
     <<"precsim;", "U+227E">>, <<"prime;", "U+2032">>, <<"primes;", "U+2119">>,
     <<"prnE;", "U+2AB5">>, <<"prnap;", "U+2AB9">>, <<"prnsim;", "U+22E8">>,
     <<"prod;", "U+220F">>, <<"profalar;", "U+232E">>, <<"profline;", "U+2312">>,
     <<"profsurf;", "U+2313">>, <<"prop;", "U+221D">>, <<"propto;", "U+221D">>,
     <<"prsim;", "U+227E">>, <<"prurel;", "U+22B0">>, <<"pscr;", "U+1D4C5">>,
     <<"psi;", "U+03C8">>, <<"puncsp;", "U+2008">>, <<"qfr;", "U+1D52E">>,
     <<"qint;", "U+2A0C">>, <<"qopf;", "U+1D562">>, <<"qprime;", "U+2057">>,
     <<"qscr;", "U+1D4C6">>, <<"quaternions;", "U+210D">>, <<"quatint;", "U+2A16">>,
     <<"quest;", "?">>, <<"questeq;", "U+225F">>, <<"quot", "\"">>, <<"quot;", "\"">>,
     <<"rAarr;", "U+21DB">>, <<"rArr;", "U+21D2">>, <<"rAtail;", "U+291C">>,
     <<"rBarr;", "U+290F">>, <<"rHar;", "U+2964">>, <<"race;", "U+223D", "U+0331">>,
     <<"racute;", "U+0155">>, <<"radic;", "U+221A">>, <<"raemptyv;", "U+29B3">>,
     <<"rang;", "U+27E9">>, <<"rangd;", "U+2992">>, <<"range;", "U+29A5">>,
     <<"rangle;", "U+27E9">>, <<"raquo", "U+00BB">>, <<"raquo;", "U+00BB">>,
     <<"rarr;", "U+2192">>, <<"rarrap;", "U+2975">>, <<"rarrb;", "U+21E5">>,
     <<"rarrbfs;", "U+2920">>, <<"rarrc;", "U+2933">>, <<"rarrfs;", "U+291E">>,
     <<"rarrhk;", "U+21AA">>, <<"rarrlp;", "U+21AC">>, <<"rarrpl;", "U+2945">>,
     <<"rarrsim;", "U+2974">>, <<"rarrtl;", "U+21A3">>, <<"rarrw;", "U+219D">>,
     <<"ratail;", "U+291A">>, <<"ratio;", "U+2236">>, <<"rationals;", "U+211A">>,
     <<"rbarr;", "U+290D">>, <<"rbbrk;", "U+2773">>, <<"rbrace;", "}">>, <<"rbrack;", "]">>,
     <<"rbrke;", "U+298C">>, <<"rbrksld;", "U+298E">>, <<"rbrkslu;", "U+2990">>,
     <<"rcaron;", "U+0159">>, <<"rcedil;", "U+0157">>, <<"rceil;", "U+2309">>, <<"rcub;", "}">>,
     <<"rcy;", "U+0440">>, <<"rdca;", "U+2937">>, <<"rdldhar;", "U+2969">>,
     <<"rdquo;", "U+201D">>, <<"rdquor;", "U+201D">>, <<"rdsh;", "U+21B3">>,
     <<"real;", "U+211C">>, <<"realine;", "U+211B">>, <<"realpart;", "U+211C">>,
     <<"reals;", "U+211D">>, <<"rect;", "U+25AD">>, <<"reg", "U+00AE">>, <<"reg;", "U+00AE">>,
     <<"rfisht;", "U+297D">>, <<"rfloor;", "U+230B">>, <<"rfr;", "U+1D52F">>,
     <<"rhard;", "U+21C1">>, <<"rharu;", "U+21C0">>, <<"rharul;", "U+296C">>,
     <<"rho;", "U+03C1">>, <<"rhov;", "U+03F1">>, <<"rightarrow;", "U+2192">>,
     <<"rightarrowtail;", "U+21A3">>, <<"rightharpoondown;", "U+21C1">>,
     <<"rightharpoonup;", "U+21C0">>, <<"rightleftarrows;", "U+21C4">>,
     <<"rightleftharpoons;", "U+21CC">>, <<"rightrightarrows;", "U+21C9">>,
     <<"rightsquigarrow;", "U+219D">>, <<"rightthreetimes;", "U+22CC">>, <<"ring;", "U+02DA">>,
     <<"risingdotseq;", "U+2253">>, <<"rlarr;", "U+21C4">>, <<"rlhar;", "U+21CC">>,
     <<"rlm;", "U+200F">>, <<"rmoust;", "U+23B1">>, <<"rmoustache;", "U+23B1">>,
     <<"rnmid;", "U+2AEE">>, <<"roang;", "U+27ED">>, <<"roarr;", "U+21FE">>,
     <<"robrk;", "U+27E7">>, <<"ropar;", "U+2986">>, <<"ropf;", "U+1D563">>,
     <<"roplus;", "U+2A2E">>, <<"rotimes;", "U+2A35">>, <<"rpar;", ")">>,
     <<"rpargt;", "U+2994">>, <<"rppolint;", "U+2A12">>, <<"rrarr;", "U+21C9">>,
     <<"rsaquo;", "U+203A">>, <<"rscr;", "U+1D4C7">>, <<"rsh;", "U+21B1">>, <<"rsqb;", "]">>,
     <<"rsquo;", "U+2019">>, <<"rsquor;", "U+2019">>, <<"rthree;", "U+22CC">>,
     <<"rtimes;", "U+22CA">>, <<"rtri;", "U+25B9">>, <<"rtrie;", "U+22B5">>,
     <<"rtrif;", "U+25B8">>, <<"rtriltri;", "U+29CE">>, <<"ruluhar;", "U+2968">>,
     <<"rx;", "U+211E">>, <<"sacute;", "U+015B">>, <<"sbquo;", "U+201A">>, <<"sc;", "U+227B">>,
     <<"scE;", "U+2AB4">>, <<"scap;", "U+2AB8">>, <<"scaron;", "U+0161">>,
     <<"sccue;", "U+227D">>, <<"sce;", "U+2AB0">>, <<"scedil;", "U+015F">>,
     <<"scirc;", "U+015D">>, <<"scnE;", "U+2AB6">>, <<"scnap;", "U+2ABA">>,
     <<"scnsim;", "U+22E9">>, <<"scpolint;", "U+2A13">>, <<"scsim;", "U+227F">>,
     <<"scy;", "U+0441">>, <<"sdot;", "U+22C5">>, <<"sdotb;", "U+22A1">>,
     <<"sdote;", "U+2A66">>, <<"seArr;", "U+21D8">>, <<"searhk;", "U+2925">>,
     <<"searr;", "U+2198">>, <<"searrow;", "U+2198">>, <<"sect", "U+00A7">>,
     <<"sect;", "U+00A7">>, <<"semi;", ";">>, <<"seswar;", "U+2929">>,
     <<"setminus;", "U+2216">>, <<"setmn;", "U+2216">>, <<"sext;", "U+2736">>,
     <<"sfr;", "U+1D530">>, <<"sfrown;", "U+2322">>, <<"sharp;", "U+266F">>,
     <<"shchcy;", "U+0449">>, <<"shcy;", "U+0448">>, <<"shortmid;", "U+2223">>,
     <<"shortparallel;", "U+2225">>, <<"shy", "U+00AD">>, <<"shy;", "U+00AD">>,
     <<"sigma;", "U+03C3">>, <<"sigmaf;", "U+03C2">>, <<"sigmav;", "U+03C2">>,
     <<"sim;", "U+223C">>, <<"simdot;", "U+2A6A">>, <<"sime;", "U+2243">>,
     <<"simeq;", "U+2243">>, <<"simg;", "U+2A9E">>, <<"simgE;", "U+2AA0">>,
     <<"siml;", "U+2A9D">>, <<"simlE;", "U+2A9F">>, <<"simne;", "U+2246">>,
     <<"simplus;", "U+2A24">>, <<"simrarr;", "U+2972">>, <<"slarr;", "U+2190">>,
     <<"smallsetminus;", "U+2216">>, <<"smashp;", "U+2A33">>, <<"smeparsl;", "U+29E4">>,
     <<"smid;", "U+2223">>, <<"smile;", "U+2323">>, <<"smt;", "U+2AAA">>, <<"smte;", "U+2AAC">>,
     <<"smtes;", "U+2AAC", "U+FE00">>, <<"softcy;", "U+044C">>, <<"sol;", "/">>,
     <<"solb;", "U+29C4">>, <<"solbar;", "U+233F">>, <<"sopf;", "U+1D564">>,
     <<"spades;", "U+2660">>, <<"spadesuit;", "U+2660">>, <<"spar;", "U+2225">>,
     <<"sqcap;", "U+2293">>, <<"sqcaps;", "U+2293", "U+FE00">>, <<"sqcup;", "U+2294">>,
     <<"sqcups;", "U+2294", "U+FE00">>, <<"sqsub;", "U+228F">>, <<"sqsube;", "U+2291">>,
     <<"sqsubset;", "U+228F">>, <<"sqsubseteq;", "U+2291">>, <<"sqsup;", "U+2290">>,
     <<"sqsupe;", "U+2292">>, <<"sqsupset;", "U+2290">>, <<"sqsupseteq;", "U+2292">>,
     <<"squ;", "U+25A1">>, <<"square;", "U+25A1">>, <<"squarf;", "U+25AA">>,
     <<"squf;", "U+25AA">>, <<"srarr;", "U+2192">>, <<"sscr;", "U+1D4C8">>,
     <<"ssetmn;", "U+2216">>, <<"ssmile;", "U+2323">>, <<"sstarf;", "U+22C6">>,
     <<"star;", "U+2606">>, <<"starf;", "U+2605">>, <<"straightepsilon;", "U+03F5">>,
     <<"straightphi;", "U+03D5">>, <<"strns;", "U+00AF">>, <<"sub;", "U+2282">>,
     <<"subE;", "U+2AC5">>, <<"subdot;", "U+2ABD">>, <<"sube;", "U+2286">>,
     <<"subedot;", "U+2AC3">>, <<"submult;", "U+2AC1">>, <<"subnE;", "U+2ACB">>,
     <<"subne;", "U+228A">>, <<"subplus;", "U+2ABF">>, <<"subrarr;", "U+2979">>,
     <<"subset;", "U+2282">>, <<"subseteq;", "U+2286">>, <<"subseteqq;", "U+2AC5">>,
     <<"subsetneq;", "U+228A">>, <<"subsetneqq;", "U+2ACB">>, <<"subsim;", "U+2AC7">>,
     <<"subsub;", "U+2AD5">>, <<"subsup;", "U+2AD3">>, <<"succ;", "U+227B">>,
     <<"succapprox;", "U+2AB8">>, <<"succcurlyeq;", "U+227D">>, <<"succeq;", "U+2AB0">>,
     <<"succnapprox;", "U+2ABA">>, <<"succneqq;", "U+2AB6">>, <<"succnsim;", "U+22E9">>,
     <<"succsim;", "U+227F">>, <<"sum;", "U+2211">>, <<"sung;", "U+266A">>,
     <<"sup1", "U+00B9">>, <<"sup1;", "U+00B9">>, <<"sup2", "U+00B2">>, <<"sup2;", "U+00B2">>,
     <<"sup3", "U+00B3">>, <<"sup3;", "U+00B3">>, <<"sup;", "U+2283">>, <<"supE;", "U+2AC6">>,
     <<"supdot;", "U+2ABE">>, <<"supdsub;", "U+2AD8">>, <<"supe;", "U+2287">>,
     <<"supedot;", "U+2AC4">>, <<"suphsol;", "U+27C9">>, <<"suphsub;", "U+2AD7">>,
     <<"suplarr;", "U+297B">>, <<"supmult;", "U+2AC2">>, <<"supnE;", "U+2ACC">>,
     <<"supne;", "U+228B">>, <<"supplus;", "U+2AC0">>, <<"supset;", "U+2283">>,
     <<"supseteq;", "U+2287">>, <<"supseteqq;", "U+2AC6">>, <<"supsetneq;", "U+228B">>,
     <<"supsetneqq;", "U+2ACC">>, <<"supsim;", "U+2AC8">>, <<"supsub;", "U+2AD4">>,
     <<"supsup;", "U+2AD6">>, <<"swArr;", "U+21D9">>, <<"swarhk;", "U+2926">>,
     <<"swarr;", "U+2199">>, <<"swarrow;", "U+2199">>, <<"swnwar;", "U+292A">>,
     <<"szlig", "U+00DF">>, <<"szlig;", "U+00DF">>, <<"target;", "U+2316">>,
     <<"tau;", "U+03C4">>, <<"tbrk;", "U+23B4">>, <<"tcaron;", "U+0165">>,
     <<"tcedil;", "U+0163">>, <<"tcy;", "U+0442">>, <<"tdot;", "U+20DB">>,
     <<"telrec;", "U+2315">>, <<"tfr;", "U+1D531">>, <<"there4;", "U+2234">>,
     <<"therefore;", "U+2234">>, <<"theta;", "U+03B8">>, <<"thetasym;", "U+03D1">>,
     <<"thetav;", "U+03D1">>, <<"thickapprox;", "U+2248">>, <<"thicksim;", "U+223C">>,
     <<"thinsp;", "U+2009">>, <<"thkap;", "U+2248">>, <<"thksim;", "U+223C">>,
     <<"thorn", "U+00FE">>, <<"thorn;", "U+00FE">>, <<"tilde;", "U+02DC">>,
     <<"times", "U+00D7">>, <<"times;", "U+00D7">>, <<"timesb;", "U+22A0">>,
     <<"timesbar;", "U+2A31">>, <<"timesd;", "U+2A30">>, <<"tint;", "U+222D">>,
     <<"toea;", "U+2928">>, <<"top;", "U+22A4">>, <<"topbot;", "U+2336">>,
     <<"topcir;", "U+2AF1">>, <<"topf;", "U+1D565">>, <<"topfork;", "U+2ADA">>,
     <<"tosa;", "U+2929">>, <<"tprime;", "U+2034">>, <<"trade;", "U+2122">>,
     <<"triangle;", "U+25B5">>, <<"triangledown;", "U+25BF">>, <<"triangleleft;", "U+25C3">>,
     <<"trianglelefteq;", "U+22B4">>, <<"triangleq;", "U+225C">>,
     <<"triangleright;", "U+25B9">>, <<"trianglerighteq;", "U+22B5">>, <<"tridot;", "U+25EC">>,
     <<"trie;", "U+225C">>, <<"triminus;", "U+2A3A">>, <<"triplus;", "U+2A39">>,
     <<"trisb;", "U+29CD">>, <<"tritime;", "U+2A3B">>, <<"trpezium;", "U+23E2">>,
     <<"tscr;", "U+1D4C9">>, <<"tscy;", "U+0446">>, <<"tshcy;", "U+045B">>,
     <<"tstrok;", "U+0167">>, <<"twixt;", "U+226C">>, <<"twoheadleftarrow;", "U+219E">>,
     <<"twoheadrightarrow;", "U+21A0">>, <<"uArr;", "U+21D1">>, <<"uHar;", "U+2963">>,
     <<"uacute", "U+00FA">>, <<"uacute;", "U+00FA">>, <<"uarr;", "U+2191">>,
     <<"ubrcy;", "U+045E">>, <<"ubreve;", "U+016D">>, <<"ucirc", "U+00FB">>,
     <<"ucirc;", "U+00FB">>, <<"ucy;", "U+0443">>, <<"udarr;", "U+21C5">>,
     <<"udblac;", "U+0171">>, <<"udhar;", "U+296E">>, <<"ufisht;", "U+297E">>,
     <<"ufr;", "U+1D532">>, <<"ugrave", "U+00F9">>, <<"ugrave;", "U+00F9">>,
     <<"uharl;", "U+21BF">>, <<"uharr;", "U+21BE">>, <<"uhblk;", "U+2580">>,
     <<"ulcorn;", "U+231C">>, <<"ulcorner;", "U+231C">>, <<"ulcrop;", "U+230F">>,
     <<"ultri;", "U+25F8">>, <<"umacr;", "U+016B">>, <<"uml", "U+00A8">>, <<"uml;", "U+00A8">>,
     <<"uogon;", "U+0173">>, <<"uopf;", "U+1D566">>, <<"uparrow;", "U+2191">>,
     <<"updownarrow;", "U+2195">>, <<"upharpoonleft;", "U+21BF">>,
     <<"upharpoonright;", "U+21BE">>, <<"uplus;", "U+228E">>, <<"upsi;", "U+03C5">>,
     <<"upsih;", "U+03D2">>, <<"upsilon;", "U+03C5">>, <<"upuparrows;", "U+21C8">>,
     <<"urcorn;", "U+231D">>, <<"urcorner;", "U+231D">>, <<"urcrop;", "U+230E">>,
     <<"uring;", "U+016F">>, <<"urtri;", "U+25F9">>, <<"uscr;", "U+1D4CA">>,
     <<"utdot;", "U+22F0">>, <<"utilde;", "U+0169">>, <<"utri;", "U+25B5">>,
     <<"utrif;", "U+25B4">>, <<"uuarr;", "U+21C8">>, <<"uuml", "U+00FC">>,
     <<"uuml;", "U+00FC">>, <<"uwangle;", "U+29A7">>, <<"vArr;", "U+21D5">>,
     <<"vBar;", "U+2AE8">>, <<"vBarv;", "U+2AE9">>, <<"vDash;", "U+22A8">>,
     <<"vangrt;", "U+299C">>, <<"varepsilon;", "U+03F5">>, <<"varkappa;", "U+03F0">>,
     <<"varnothing;", "U+2205">>, <<"varphi;", "U+03D5">>, <<"varpi;", "U+03D6">>,
     <<"varpropto;", "U+221D">>, <<"varr;", "U+2195">>, <<"varrho;", "U+03F1">>,
     <<"varsigma;", "U+03C2">>, <<"varsubsetneq;", "U+228A", "U+FE00">>,
     <<"varsubsetneqq;", "U+2ACB", "U+FE00">>, <<"varsupsetneq;", "U+228B", "U+FE00">>,
     <<"varsupsetneqq;", "U+2ACC", "U+FE00">>, <<"vartheta;", "U+03D1">>,
     <<"vartriangleleft;", "U+22B2">>, <<"vartriangleright;", "U+22B3">>, <<"vcy;", "U+0432">>,
     <<"vdash;", "U+22A2">>, <<"vee;", "U+2228">>, <<"veebar;", "U+22BB">>,
     <<"veeeq;", "U+225A">>, <<"vellip;", "U+22EE">>, <<"verbar;", "|">>, <<"vert;", "|">>,
     <<"vfr;", "U+1D533">>, <<"vltri;", "U+22B2">>, <<"vnsub;", "U+2282", "U+20D2">>,
     <<"vnsup;", "U+2283", "U+20D2">>, <<"vopf;", "U+1D567">>, <<"vprop;", "U+221D">>,
     <<"vrtri;", "U+22B3">>, <<"vscr;", "U+1D4CB">>, <<"vsubnE;", "U+2ACB", "U+FE00">>,
     <<"vsubne;", "U+228A", "U+FE00">>, <<"vsupnE;", "U+2ACC", "U+FE00">>,
     <<"vsupne;", "U+228B", "U+FE00">>, <<"vzigzag;", "U+299A">>, <<"wcirc;", "U+0175">>,
     <<"wedbar;", "U+2A5F">>, <<"wedge;", "U+2227">>, <<"wedgeq;", "U+2259">>,
     <<"weierp;", "U+2118">>, <<"wfr;", "U+1D534">>, <<"wopf;", "U+1D568">>,
     <<"wp;", "U+2118">>, <<"wr;", "U+2240">>, <<"wreath;", "U+2240">>, <<"wscr;", "U+1D4CC">>,
     <<"xcap;", "U+22C2">>, <<"xcirc;", "U+25EF">>, <<"xcup;", "U+22C3">>,
     <<"xdtri;", "U+25BD">>, <<"xfr;", "U+1D535">>, <<"xhArr;", "U+27FA">>,
     <<"xharr;", "U+27F7">>, <<"xi;", "U+03BE">>, <<"xlArr;", "U+27F8">>,
     <<"xlarr;", "U+27F5">>, <<"xmap;", "U+27FC">>, <<"xnis;", "U+22FB">>,
     <<"xodot;", "U+2A00">>, <<"xopf;", "U+1D569">>, <<"xoplus;", "U+2A01">>,
     <<"xotime;", "U+2A02">>, <<"xrArr;", "U+27F9">>, <<"xrarr;", "U+27F6">>,
     <<"xscr;", "U+1D4CD">>, <<"xsqcup;", "U+2A06">>, <<"xuplus;", "U+2A04">>,
     <<"xutri;", "U+25B3">>, <<"xvee;", "U+22C1">>, <<"xwedge;", "U+22C0">>,
     <<"yacute", "U+00FD">>, <<"yacute;", "U+00FD">>, <<"yacy;", "U+044F">>,
     <<"ycirc;", "U+0177">>, <<"ycy;", "U+044B">>, <<"yen", "U+00A5">>, <<"yen;", "U+00A5">>,
     <<"yfr;", "U+1D536">>, <<"yicy;", "U+0457">>, <<"yopf;", "U+1D56A">>,
     <<"yscr;", "U+1D4CE">>, <<"yucy;", "U+044E">>, <<"yuml", "U+00FF">>, <<"yuml;", "U+00FF">>,
     <<"zacute;", "U+017A">>, <<"zcaron;", "U+017E">>, <<"zcy;", "U+0437">>,
     <<"zdot;", "U+017C">>, <<"zeetrf;", "U+2128">>, <<"zeta;", "U+03B6">>,
     <<"zfr;", "U+1D537">>, <<"zhcy;", "U+0436">>, <<"zigrarr;", "U+21DD">>,
     <<"zopf;", "U+1D56B">>, <<"zscr;", "U+1D4CF">>, <<"zwj;", "U+200D">>, <<"zwnj;", "U+200C">>}

RECURSIVE Name(_)
\* the characters of s as one string, the form of the names of Html5Table
Name(s) == IF s = <<>> THEN "" ELSE Head(s) \o Name(Tail(s))

\* the entries of the table named s (`s in _html5`) or s[:x] for an x of
\* range(len(s)-1, 1, -1)
Html5Prefixes(s) ==
    {e \in Html5Table :
        \E x \in (2..(Len(s) - 1)) \cup {Len(s)} : e[1] = Name(SubSeq(s, 1, x))}

\* the entry with the longest name
Longest(entries) == CHOOSE e \in entries : \A f \in entries : Len(f[1]) <= Len(e[1])

\* the named branch of html._replace_charref: the value of s or of its longest
\* prefix in the table and the rest of s, "&" + s when there is none
NamedCharref(s, entries) ==
    IF entries = {} THEN <<"&">> \o s
    ELSE Tail(Longest(entries)) \o SubSeq(s, Len(Longest(entries)[1]) + 1, Len(s))

\* html._invalid_charrefs: <<number, replacement character>>
InvalidCharrefs ==
    {<<0, "U+FFFD">>, <<13, "\r">>, <<128, "U+20AC">>, <<129, "U+0081">>, <<130, "U+201A">>,
     <<131, "U+0192">>, <<132, "U+201E">>, <<133, "U+2026">>, <<134, "U+2020">>,
     <<135, "U+2021">>, <<136, "U+02C6">>, <<137, "U+2030">>, <<138, "U+0160">>,
     <<139, "U+2039">>, <<140, "U+0152">>, <<141, "U+008D">>, <<142, "U+017D">>,
     <<143, "U+008F">>, <<144, "U+0090">>, <<145, "U+2018">>, <<146, "U+2019">>,
     <<147, "U+201C">>, <<148, "U+201D">>, <<149, "U+2022">>, <<150, "U+2013">>,
     <<151, "U+2014">>, <<152, "U+02DC">>, <<153, "U+2122">>, <<154, "U+0161">>,
     <<155, "U+203A">>, <<156, "U+0153">>, <<157, "U+009D">>, <<158, "U+017E">>,
     <<159, "U+0178">>}

\* html._invalid_codepoints
InvalidCodepoints ==
    {1, 2, 3, 4, 5, 6, 7, 8, 11, 14, 15, 16, 17, 18, 19, 20, 21, 22, 23, 24, 25, 26, 27, 28,
     29, 30, 31, 127, 128, 129, 130, 131, 132, 133, 134, 135, 136, 137, 138, 139, 140, 141,
     142, 143, 144, 145, 146, 147, 148, 149, 150, 151, 152, 153, 154, 155, 156, 157, 158, 159,
     64976, 64977, 64978, 64979, 64980, 64981, 64982, 64983, 64984, 64985, 64986, 64987, 64988,
     64989, 64990, 64991, 64992, 64993, 64994, 64995, 64996, 64997, 64998, 64999, 65000, 65001,
     65002, 65003, 65004, 65005, 65006, 65007, 65534, 65535, 131070, 131071, 196606, 196607,
     262142, 262143, 327678, 327679, 393214, 393215, 458750, 458751, 524286, 524287, 589822,
     589823, 655358, 655359, 720894, 720895, 786430, 786431, 851966, 851967, 917502, 917503,
     983038, 983039, 1048574, 1048575, 1114110, 1114111}

\* the largest code point, 0x10FFFF
MaxCodepoint == 1114111

\* the value of a digit of int(text, 16)
DigitValue(c) ==
    CASE c \in DigitChars -> (CHOOSE d \in 0..9 : HexDigits[d + 1] = c)
      [] c \in {"a", "A"} -> 10
      [] c \in {"b", "B"} -> 11
      [] c \in {"c", "C"} -> 12
      [] c \in {"d", "D"} -> 13
      [] c \in {"e", "E"} -> 14
      [] c \in {"f", "F"} -> 15

\* length of the run [class]* at the head of s
ClassRunLen(s, class) ==
    LET others == {k \in 1..Len(s) : s[k] \notin class}
    IN IF others = {} THEN Len(s)
       ELSE (CHOOSE k \in others : \A j \in others : k <= j) - 1

\* sys.get_int_max_str_digits(): the digits int() converts in a base that is
\* no power of two (Python 3.11 and later)
MaxStrDigits == 4300

RECURSIVE ParseDigits(_, _, _)
\* the value of the digits in the base, continued from acc
ParseDigits(digits, base, acc) ==
    IF digits = <<>> THEN acc
    ELSE ParseDigits(Tail(digits), base, acc * base + DigitValue(Head(digits)))

\* int(digits, base) as html._replace_charref calls it, with base 10 or 16:
\* more than MaxStrDigits decimal digits, leading zeros counted, raise
\* ValueError; hexadecimal digits have no limit. A number of more than seven
\* digits after its leading zeros is beyond the largest code point, whatever
\* the base: it is given as MaxCodepoint + 1, which _replace_charref treats
\* like the number itself.
ParseInt(digits, base) ==
    IF base = 10 /\ Len(digits) > MaxStrDigits THEN ValueError
    ELSE LET zeros == ClassRunLen(digits, {"0"})
         IN IF Len(digits) - zeros > 7 THEN N(MaxCodepoint + 1)
            ELSE N(ParseDigits(SubSeq(digits, zeros + 1, Len(digits)), base, 0))

RECURSIVE NameLen(_, _)
\* length of the run [^\t\n\f <&#;]{0,n} at the head of s
NameLen(s, n) ==
    IF n = 0 \/ s = <<>> \/ Head(s) \in EntityStop THEN 0
    ELSE 1 + NameLen(Tail(s), n - 1)

HexChars == DigitChars \cup {"a", "b", "c", "d", "e", "f", "A", "B", "C", "D", "E", "F"}

\* html._charref matched at the head of s, the text after an "&": the length of
\* group 1 of #[0-9]+;? | #[xX][0-9a-fA-F]+;? | [^\t\n\f <&#;]{1,32};? and 0
\* when the pattern does not match
CharrefLen(s) ==
    LET body == IF s = <<>> THEN 0
                ELSE IF Head(s) = "#"
                THEN IF ClassRunLen(Tail(s), DigitChars) > 0
                     THEN 1 + ClassRunLen(Tail(s), DigitChars)
                     ELSE IF /\ Len(s) >= 2
                             /\ s[2] \in {"x", "X"}
                             /\ ClassRunLen(SubSeq(s, 3, Len(s)), HexChars) > 0
                     THEN 2 + ClassRunLen(SubSeq(s, 3, Len(s)), HexChars)
                     ELSE 0
                ELSE NameLen(s, 32)
    IN IF body = 0 THEN 0
       ELSE IF Len(s) > body /\ s[body + 1] = ";" THEN body + 1
       ELSE body

\* html._replace_charref for the reference s (group 1: the text after "&"):
\* the text that replaces it, or the ValueError of int()
replace_charref(s) ==
    IF s[1] = "#"
    THEN LET hex == s[2] \in {"x", "X"}
             unterminated == IF s[Len(s)] = ";" THEN SubSeq(s, 1, Len(s) - 1) ELSE s
             digits == SubSeq(unterminated, IF hex THEN 3 ELSE 2, Len(unterminated))
             parsed == ParseInt(digits, IF hex THEN 16 ELSE 10)
             num == parsed.num
         IN IF parsed = ValueError THEN ValueError
            ELSE IF \E e \in InvalidCharrefs : e[1] = num
            THEN S(<<(CHOOSE e \in InvalidCharrefs : e[1] = num)[2]>>)
            ELSE IF num \in 55296..57343 \/ num > MaxCodepoint THEN S(<<"U+FFFD">>)
            ELSE IF num \in InvalidCodepoints THEN S(<<>>)
            ELSE S(<<Chr(num)>>)
    ELSE S(NamedCharref(s, Html5Prefixes(s)))

\* what _charref.sub makes of a text whose head became `replaced` and whose
\* remainder became `rest`: the str of both, or the ValueError a replacement
\* raised
Substituted(replaced, rest) ==
    IF replaced = ValueError \/ rest = ValueError THEN ValueError
    ELSE S(replaced.str \o rest.str)

RECURSIVE html_unescape(_)
\* html.unescape of the text s, _charref.sub(_replace_charref, s): the str it
\* returns, or the ValueError that replacing one of the references raises
html_unescape(s) ==
    IF s = <<>> THEN S(<<>>)
    ELSE IF Head(s) = "&" /\ CharrefLen(Tail(s)) >= 1
         THEN LET n == CharrefLen(Tail(s))
              IN Substituted(replace_charref(SubSeq(s, 2, n + 1)),
                             html_unescape(SubSeq(s, n + 2, Len(s))))
         ELSE Substituted(S(<<Head(s)>>), html_unescape(Tail(s)))

RECURSIVE HTML_TAG_RE_sub(_)
\* HTML_TAG_RE.sub(" ", s) with HTML_TAG_RE = <[^>]+>
HTML_TAG_RE_sub(s) ==
    IF s = <<>> THEN <<>>
    ELSE IF /\ Head(s) = "<"
            /\ Len(s) >= 3
            /\ s[2] # ">"
            /\ \E j \in 3..Len(s) : s[j] = ">"
         THEN LET j == CHOOSE j \in 3..Len(s) :
                           s[j] = ">" /\ \A k \in 3..(j - 1) : s[k] # ">"
              IN <<" ">> \o HTML_TAG_RE_sub(SubSeq(s, j + 1, Len(s)))
         ELSE <<Head(s)>> \o HTML_TAG_RE_sub(Tail(s))

\* NON_PRINTABLE_RE.sub(" ", s) with NON_PRINTABLE_RE = [^\x09\x0A\x0D\x20-\x7E]
NON_PRINTABLE_RE_sub(s) ==
    [i \in 1..Len(s) |->
        IF s[i] \in AsciiPrintable \cup {"\t", "\n", "\r"} THEN s[i] ELSE " "]

\* `cleaned or None`
OrNone(cleaned) == IF cleaned = <<>> THEN None ELSE S(cleaned)

\* lines 342-346 of clean_string, on what html.unescape returned at line 341;
\* its ValueError, which nothing catches, leaves clean_string
CleanUnescaped(unescaped) ==
    IF unescaped = ValueError THEN ValueError
    ELSE LET without_tags == HTML_TAG_RE_sub(unescaped.str)
             without_controls == CollapseRuns(without_tags, {"\r", "\n", "\t"})
             without_specials == NON_PRINTABLE_RE_sub(without_controls)
         IN OrNone(Strip(CollapseRuns(without_specials, SpaceChars)))

\* clean_string: None, the cleaned str, or the ValueError of html.unescape
clean_string(value) ==
    IF value = None THEN None
    ELSE CleanUnescaped(html_unescape(value.str))

\* lines 351-356 of normalise_api_string, on what clean_string returned at
\* line 350; its ValueError leaves normalise_api_string
Canonical(cleaned) ==
    IF cleaned = ValueError THEN ValueError
    ELSE IF cleaned = None THEN None
    ELSE LET dashed == MapClass(cleaned.str, {EN_DASH, EM_DASH}, "-")
             unspaced == DropClass(dashed, SpaceChars)
         IN OrNone(SelectSeq(unspaced,
                       LAMBDA c : c \in DigitChars \cup LetterChars \cup {"-"}))

\* normalise_api_string: None, the canonical str, or the ValueError of
\* clean_string
normalise_api_string(value) == Canonical(clean_string(value))

limit_length(value, max_length) ==
    IF value = None THEN None
    ELSE IF Len(value.str) <= max_length THEN value
    ELSE S(SubSeq(value.str, 1, max_length))

\* ------------------------------------------------------------- default substitution

STRING_MISSING_DEFAULT == S(<<"N", "/", "A">>)

NUMERIC_MISSING_DEFAULT == 0

\* mutant: the untouched input is returned instead of the updated copy
apply_missing_defaults_unchanged(data, string_fields, numeric_fields, exclude) == data

\* mutant: every missing entry is defaulted, the exclusions are not consulted
apply_missing_defaults_all(data, string_fields, numeric_fields, exclude) ==
    [f \in DOMAIN data \cup string_fields \cup numeric_fields |->
        IF IsMissing(Get(data, f))
        THEN IF f \in numeric_fields THEN N(NUMERIC_MISSING_DEFAULT)
             ELSE STRING_MISSING_DEFAULT
        ELSE data[f]]

\* one `for field in ...` loop of apply_missing_defaults (lines 409-413,
\* 415-420): every field of `fields` that `updated` lacks, or holds as None
\* or "", gets the default
FillMissing(updated, fields, default) ==
    [f \in DOMAIN updated \cup fields |->
        IF f \in fields /\ IsMissing(Get(updated, f)) THEN default ELSE updated[f]]

apply_missing_defaults(data, string_fields, numeric_fields, exclude) ==
    FillMissing(FillMissing(data, string_fields \ exclude, STRING_MISSING_DEFAULT),
                numeric_fields \ exclude, N(NUMERIC_MISSING_DEFAULT))

\* {k: v for k, v in prepared.items() if v not in (None, "")}
DropMissing(prepared) ==
    [f \in {k \in DOMAIN prepared : ~IsMissing(prepared[k])} |-> prepared[f]]

\* ------------------------------------------------------------- identifier recovery

format_api(digits) ==
    LET length == Len(digits)
        dash == <<"-">>
    IN IF length = 10
       THEN S(SubSeq(digits, 1, 2) \o dash \o SubSeq(digits, 3, 5) \o dash
                \o SubSeq(digits, 6, length))
       ELSE IF length = 12
       THEN S(SubSeq(digits, 1, 2) \o dash \o SubSeq(digits, 3, 5) \o dash
                \o SubSeq(digits, 6, 10) \o dash \o SubSeq(digits, 11, length))
       ELSE IF length = 14
       THEN S(SubSeq(digits, 1, 2) \o dash \o SubSeq(digits, 3, 5) \o dash
                \o SubSeq(digits, 6, 10) \o dash \o SubSeq(digits, 11, 12) \o dash
                \o SubSeq(digits, 13, length))
       ELSE None

\* [\s\-/\\]
SeparatorChars == SpaceChars \cup {"-", "/", "\\"}

RECURSIVE SkipSeparators(_, _)
\* the position after the run [\s\-/\\]* that starts at i
SkipSeparators(s, i) ==
    IF i <= Len(s) /\ s[i] \in SeparatorChars THEN SkipSeparators(s, i + 1) ELSE i

RECURSIVE MatchDigitGroups(_, _, _)
\* greedy (?:\d[\s\-/\\]*){..14} from position i with n groups taken:
\* <<position after the match, groups taken>>
MatchDigitGroups(s, i, n) ==
    IF n < 14 /\ i <= Len(s) /\ IsDigit(s[i])
    THEN MatchDigitGroups(s, SkipSeparators(s, i + 1), n + 1)
    ELSE <<i, n>>

RECURSIVE SeparatedRuns(_, _)
\* pattern.finditer(normalised) from position i, each match stripped of \D
SeparatedRuns(s, i) ==
    IF i > Len(s) THEN <<>>
    ELSE LET m == MatchDigitGroups(s, i, 0)
         IN IF m[2] >= 10
            THEN LET digits == SelectSeq(SubSeq(s, i, m[1] - 1), IsDigit)
                 IN (IF 10 <= Len(digits) /\ Len(digits) <= 14
                     THEN <<digits>> ELSE <<>>) \o SeparatedRuns(s, m[1])
            ELSE SeparatedRuns(s, i + 1)

RECURSIVE DigitRunLen(_, _)
\* number of consecutive digits from position i
DigitRunLen(s, i) ==
    IF i <= Len(s) /\ IsDigit(s[i]) THEN 1 + DigitRunLen(s, i + 1) ELSE 0

RECURSIVE ContiguousRuns(_, _)
\* re.findall(r"\b\d{10,14}\b", normalised) from position i
ContiguousRuns(s, i) ==
    IF i > Len(s) THEN <<>>
    ELSE LET n == DigitRunLen(s, i)
             startsWord == i = 1 \/ ~IsWord(s[i - 1])
             endsWord == i + n > Len(s) \/ ~IsWord(s[i + n])
         IN IF startsWord /\ 10 <= n /\ n <= 14 /\ endsWord
            THEN <<SubSeq(s, i, i + n - 1)>> \o ContiguousRuns(s, i + n)
            ELSE ContiguousRuns(s, i + 1)

RECURSIVE Dedupe(_, _)
\* first occurrences, in order (the `seen` / `ordered` loop)
Dedupe(candidates, seen) ==
    IF candidates = <<>> THEN <<>>
    ELSE IF Head(candidates) \in seen THEN Dedupe(Tail(candidates), seen)
    ELSE <<Head(candidates)>> \o Dedupe(Tail(candidates), seen \cup {Head(candidates)})

RECURSIVE SortByLenAsc(_)
\* mutant: the sort without reverse=True, shortest first
SortByLenAsc(xs) ==
    IF xs = <<>> THEN <<>>
    ELSE LET rest == SortByLenAsc(SubSeq(xs, 1, Len(xs) - 1))
             x == xs[Len(xs)]
             k == Cardinality({i \in 1..Len(rest) : Len(rest[i]) <= Len(x)})
         IN SubSeq(rest, 1, k) \o <<x>> \o SubSeq(rest, k + 1, Len(rest))

RECURSIVE SortByLenDesc(_)
\* ordered.sort(key=len, reverse=True): stable, longest first
SortByLenDesc(xs) ==
    IF xs = <<>> THEN <<>>
    ELSE LET rest == SortByLenDesc(SubSeq(xs, 1, Len(xs) - 1))
             x == xs[Len(xs)]
             k == Cardinality({i \in 1..Len(rest) : Len(rest[i]) >= Len(x)})
         IN SubSeq(rest, 1, k) \o <<x>> \o SubSeq(rest, k + 1, Len(rest))

\* the candidate list of extract_api_fallback before deduplication
Candidates(text) ==
    LET normalised == MapClass(text, {EN_DASH, EM_DASH}, "-")
    IN SeparatedRuns(normalised, 1) \o ContiguousRuns(normalised, 1)

RECURSIVE FirstFormatted(_)
FirstFormatted(ordered) ==
    IF ordered = <<>> THEN None
    ELSE IF format_api(Head(ordered)) # None THEN format_api(Head(ordered))
    ELSE FirstFormatted(Tail(ordered))

\* lines 449-466 of extract_api_fallback, on the candidates of lines 441-447
FirstSupported(candidates) ==
    IF candidates = <<>> THEN None
    ELSE FirstFormatted(SortByLenDesc(Dedupe(candidates, {})))

extract_api_fallback(text) == FirstSupported(Candidates(text))

\* ------------------------------------------------------------- schema

WellStringFields ==
    {"operator", "well_name", "enseco_job", "job_type", "county_state", "shl", "datum"}

WellNumericFields == {"latitude", "longitude"}

\* the columns of Well other than id
WellColumns == {"api"} \cup WellStringFields \cup WellNumericFields

StimStringFields ==
    {"stimulated_formation", "volume_units", "type_treatment", "acid", "details"}

StimNumericFields ==
    {"top_ft", "bottom_ft", "stimulation_stages", "volume", "lbs_proppant",
     "max_treatment_pressure", "max_treatment_rate"}

\* the columns of StimulationData other than id and well_id
StimColumns == {"date_stimulated"} \cup StimStringFields \cup StimNumericFields

\* ------------------------------------------------------------- documents

\* A document is what the text extractor and the pattern cascades yield for one
\* PDF: its text, the identifier cascade's match (extract_first_match over
\* WELL_PATTERNS["api"]), for each string field what its cascade captured and
\* for each numeric field and the date what safe_float, safe_int and safe_date
\* made of the capture (they catch what they raise); readable is whether
\* PdfReader can list the pages of the file it opened (line 118).
Document(text, api_match, operator, latitude, date, formation) ==
    [readable |-> TRUE,
     text |-> text,
     api_match |-> api_match,
     well |-> [f \in WellColumns \ {"api"} |->
                  IF f = "operator" THEN operator
                  ELSE IF f = "latitude" THEN latitude ELSE None],
     stim |-> [f \in StimColumns |->
                  IF f = "date_stimulated" THEN date
                  ELSE IF f = "stimulated_formation" THEN formation ELSE None]]

Acme == S(<<"A", "c", "m", "e">>)

Bolt == S(<<"B", "o", "l", "t">>)

Bakken == S(<<"B", "a", "k", "k", "e", "n">>)

Jan2 == D(<<2020, 1, 2>>)

Mar4 == D(<<2021, 3, 4>>)

SomeText == <<"W", "e", "l", "l">>

\* a file PdfReader opens and cannot read, an encrypted one for instance
UnreadablePdf ==
    [Document(<<>>, None, None, None, None, None) EXCEPT !.readable = FALSE]

\* ten Arabic-Indic digits, which \d takes for an identifier
ArabicIndicRun ==
    <<"U+0664", "U+0662", "U+0661", "U+0662", "U+0663",
      "U+0664", "U+0665", "U+0666", "U+0667", "U+0668">>

\* a numeric character reference of more decimal digits than int() converts
OverlongReference ==
    S(<<"&", "#">> \o [k \in 1..(MaxStrDigits + 1) |-> "1"] \o <<";">>)

\* the documents a folder may hold, by number
DocCatalogue ==
    << \* a full report of well 42-123-45678, stimulated on a known date
      Document(SomeText, S(<<"4", "2", "-", "1", "2", "3", "-", "4", "5", "6", "7", "8">>),
               Acme, N(47), Jan2, Bakken),
      \* the same well and date on a noisy scan: a bare digit run and the date
      Document(<<"4", "2", "1", "2", "3", "4", "5", "6", "7", "8">>, None,
               None, None, Jan2, None),
      \* the same well, no stimulation field read
      Document(SomeText, S(<<"4", "2", "-", "1", "2", "3", "-", "4", "5", "6", "7", "8">>),
               Bolt, None, None, None),
      \* the same well, another treatment
      Document(SomeText, S(<<"4", "2", "-", "1", "2", "3", "-", "4", "5", "6", "7", "8">>),
               None, N(47), Mar4, Bakken),
      \* another well, identifier written with spaces
      Document(SomeText, S(<<"3", "3", " ", "0", "5", "3", " ", "0", "1", "2", "3", "4">>),
               Acme, None, Jan2, None),
      \* text without any identifier
      Document(SomeText, None, Acme, N(47), Jan2, Bakken),
      \* the identifier cascade matched blanks only
      Document(<<"A", "P", "I", ":", " ", " ", " ", " ", " ", " ">>, S(<<>>),
               None, None, None, Bakken),
      \* nothing extractable
      Document(<<" ", "\n">>, None, None, None, None, None),
      \* a scan whose only digits are not ASCII, the formation read and no date
      Document(ArabicIndicRun, None, None, None, None, Bakken),
      UnreadablePdf,
      \* a report of well 42-123-45678 whose operator line holds OverlongReference
      Document(SomeText, S(<<"4", "2", "-", "1", "2", "3", "-", "4", "5", "6", "7", "8">>),
               OverlongReference, N(47), Jan2, Bakken),
      \* a report of well 42-123-45678 whose formation line holds OverlongReference
      Document(SomeText, S(<<"4", "2", "-", "1", "2", "3", "-", "4", "5", "6", "7", "8">>),
               Acme, N(47), Jan2, OverlongReference) >>

\* normalise_text
normalise_text(text) == DropClass(text, {"\r"})

\* the max_length of the limit_length calls of parse_well_info (lines 186-195);
\* shl is not limited
WellLengths ==
    [operator |-> 255, well_name |-> 255, api |-> 64, enseco_job |-> 64,
     job_type |-> 255, county_state |-> 255, datum |-> 255]

\* the max_length of the limit_length calls of parse_stimulation_data (lines 208-220)
StimLengths ==
    [stimulated_formation |-> 255, volume_units |-> 32, type_treatment |-> 255,
     acid |-> 255, details |-> 65500]

\* limit_length(cleaned, lengths[f]) for what clean_string returned, cleaned
\* itself for a field without max_length; what clean_string raised leaves
\* before limit_length is called
Limited(cleaned, lengths, f) ==
    IF cleaned = ValueError \/ f \notin DOMAIN lengths THEN cleaned
    ELSE limit_length(cleaned, lengths[f])

\* clean_string(canonical) for what normalise_api_string returned (line 188)
Recleaned(canonical) ==
    IF canonical = ValueError THEN ValueError ELSE clean_string(canonical)

\* data["api"] after lines 180-183: the cascade's match, the fallback when
\* the match is None or "" and the fallback is not
ApiOrFallback(api_match, fallback_api) ==
    IF ~Truthy(api_match) /\ Truthy(fallback_api) THEN fallback_api ELSE api_match

\* the dict of a return statement, or the ValueError that raised while its
\* entries were built
DictOrRaise(entries) ==
    IF \E f \in DOMAIN entries : entries[f] = ValueError THEN ValueError ELSE entries

\* parse_well_info: the identifier through fallback and canonicalization, the
\* string fields cleaned and cut to length, the numeric fields as safe_float
\* gave them; or the ValueError one of the clean_string calls raises
parse_well_info(doc) ==
    DictOrRaise(
        [f \in WellColumns |->
            IF f = "api"
            THEN Limited(Recleaned(normalise_api_string(
                     ApiOrFallback(doc.api_match,
                                   extract_api_fallback(normalise_text(doc.text))))),
                     WellLengths, f)
            ELSE IF f \in WellStringFields
            THEN Limited(clean_string(doc.well[f]), WellLengths, f)
            ELSE doc.well[f]])

\* parse_stimulation_data: the string fields cleaned and cut to length, the
\* date and the numeric fields as safe_date, safe_float and safe_int gave
\* them; or the ValueError one of the clean_string calls raises
parse_stimulation_data(doc) ==
    DictOrRaise(
        [f \in StimColumns |->
            IF f \in StimStringFields
            THEN Limited(clean_string(doc.stim[f]), StimLengths, f)
            ELSE doc.stim[f]])

\* ------------------------------------------------------------- store

\* lines 227-232 of insert_data
WellPrepared(well_data) ==
    apply_missing_defaults(well_data, WellStringFields, WellNumericFields, {"api"})

\* line 233 of insert_data
WellPayload(well_data) == DropMissing(WellPrepared(well_data))

\* lines 249-262 of insert_data
StimPrepared(stim_data) ==
    apply_missing_defaults(stim_data, StimStringFields, StimNumericFields,
                           {"date_stimulated"})

\* line 263 of insert_data
StimPayload(stim_data) == DropMissing(StimPrepared(stim_data))

\* mutant: the identifier guard is gone
NeverLacksApi(well_payload) == FALSE

\* `if not well_payload.get("api")`
LacksApi(well_payload) == ~Truthy(Get(well_payload, "api"))

EmptyStore == [wells |-> {}, stims |-> {}]

\* AUTO_INCREMENT of the integer primary keys Well.id and StimulationData.id:
\* the value after the last one the table handed out; a rollback gives no
\* value back.
NextId(last) == last + 1

\* mutant: the lookup filters on the well name instead of the identifier
WellsByWellName(store, api) == {w \in store.wells : w.cols["well_name"] = api}

\* mutant: the lookup has no filter on the identifier
WellsUnfiltered(store, api) == store.wells

\* session.query(Well).filter(Well.api == api)
WellsByApi(store, api) == {w \in store.wells : w.cols["api"] = api}

\* mutant: the lookup is not scoped to the owning well
StimsByDateOnly(store, well_id, date) ==
    {r \in store.stims : r.cols["date_stimulated"] = date}

\* session.query(StimulationData).filter(well_id == ..., date_stimulated == ...)
StimsByWellDate(store, well_id, date) ==
    {r \in store.stims : r.well_id = well_id /\ r.cols["date_stimulated"] = date}

\* setattr(row, key, value) for every item of the payload
Overwrite(cols, payload) ==
    [f \in DOMAIN cols |-> IF f \in DOMAIN payload THEN payload[f] ELSE cols[f]]

\* Well(**well_payload) / StimulationData(**stim_payload): unset columns are NULL
NewCols(columns, payload) == [f \in columns |-> Get(payload, f)]

\* Lines 238-247: the store after the well lookup and insert or update, with
\* the id of the row written and the exception raised, if any; new_id is the
\* id AUTO_INCREMENT gives an inserted row.
UpsertWellRow(store, well_payload, new_id) ==
    LET found == WellsByApi(store, Get(well_payload, "api"))
        \* unique=True on Well.api, checked by the INSERT of session.flush()
        clash == {w \in store.wells : /\ w.cols["api"] # None
                                      /\ w.cols["api"] = Get(well_payload, "api")}
    IN IF Cardinality(found) > 1
       THEN [store |-> store, well_id |-> 0, existed |-> FALSE,
             error |-> "MultipleResultsFound"]
       ELSE IF found = {}
       THEN IF clash # {}
            THEN [store |-> store, well_id |-> 0, existed |-> FALSE,
                  error |-> "IntegrityError"]
            ELSE LET well == [id |-> new_id,
                              cols |-> NewCols(WellColumns, well_payload)]
                 IN [store |-> [store EXCEPT !.wells = @ \cup {well}],
                     well_id |-> well.id, existed |-> FALSE, error |-> "none"]
       ELSE LET well == CHOOSE w \in found : TRUE
                updated == [well EXCEPT !.cols = Overwrite(@, well_payload)]
            IN [store |-> [store EXCEPT !.wells = (@ \ {well}) \cup {updated}],
                well_id |-> well.id, existed |-> TRUE, error |-> "none"]

\* mutant: the lookup runs whether or not the payload carries a date
AlwaysHasDate(stim_payload) == TRUE

\* `if stim_payload.get("date_stimulated")`
HasDate(stim_payload) == Truthy(Get(stim_payload, "date_stimulated"))

\* Lines 264-279: the store after the stimulation lookup and insert or update;
\* new_id is the id AUTO_INCREMENT gives an inserted row.
UpsertStimRow(store, well_id, stim_payload, new_id) ==
    LET found == IF HasDate(stim_payload)
                 THEN StimsByWellDate(store, well_id, Get(stim_payload, "date_stimulated"))
                 ELSE {}
    IN IF DOMAIN stim_payload = {}
       THEN [store |-> store, error |-> "none"]
       ELSE IF Cardinality(found) > 1
       THEN [store |-> store, error |-> "MultipleResultsFound"]
       ELSE IF found = {}
       THEN LET row == [id |-> new_id, well_id |-> well_id,
                        cols |-> NewCols(StimColumns, stim_payload)]
            IN [store |-> [store EXCEPT !.stims = @ \cup {row}], error |-> "none"]
       ELSE LET existing == CHOOSE r \in found : TRUE
                updated == [existing EXCEPT !.cols = Overwrite(@, stim_payload)]
            IN [store |-> [store EXCEPT !.stims = (@ \ {existing}) \cup {updated}],
                error |-> "none"]

\* insert_data from its first line to its commit, on a store with nothing
\* pending: the store it commits (the store as it was when the call returns
\* early or raises); new_ids are the ids AUTO_INCREMENT gives the rows the
\* call inserts.
insert_data(store, well_data, stim_data, new_ids) ==
    LET well_payload == WellPayload(well_data)
        w == UpsertWellRow(store, well_payload, new_ids.wells)
        r == UpsertStimRow(w.store, w.well_id, StimPayload(stim_data), new_ids.stims)
    IN IF LacksApi(well_payload) \/ w.error # "none" \/ r.error # "none"
       THEN store
       ELSE r.store

\* api = Column(String(64), unique=True), checked when a flush writes the rows;
\* a unique index admits any number of NULLs
UniqueApi(store) ==
    \A w1, w2 \in store.wells :
        (w1.cols["api"] # None /\ w1.cols["api"] = w2.cols["api"]) => w1 = w2

\* ------------------------------------------------------------- state

MaxFiles == 2

MaxRuns == 2

Paths == 1..MaxFiles

VARIABLES
    folder_exists,  \* whether pdf_folder exists
    folder,         \* path -> number in DocCatalogue, the PDFs under pdf_folder
    db,             \* the committed rows of the store
    txn,            \* the rows as the session's open transaction sees them
    auto_increment, \* table -> the last id its AUTO_INCREMENT handed out
    session,        \* "none", "open" or "closed": the session of this run of main
    pc,             \* "idle", or the position of main inside the batch loop
    pdf_files,      \* the sorted paths of this run
    i,              \* index into pdf_files of the document being processed
    cur,            \* the locals of the insert_data call in progress
    raised,         \* the exception that ended the last run, "none" otherwise
    runs,           \* runs of main started so far
    applied,        \* history: identifier and date of each insert_data that committed
    whole,          \* history: the store whole insert_data calls for them leave
    started,        \* history: the indices process_pdf was called with, this run
    failed_at,      \* history: the index whose processing raised, this run
    failed_step,    \* history: the position of insert_data that raised, this run
    call            \* a call of a pure function: its name, argument and result

vars ==
    <<folder_exists, folder, db, txn, auto_increment, session, pc, pdf_files, i, cur,
      raised, runs, applied, whole, started, failed_at, failed_step, call>>

NoCall == [path |-> 0, well_data |-> None, stim_data |-> None,
           well_payload |-> [f \in {} |-> None],
           stim_payload |-> [f \in {} |-> None], missing |-> {},
           well_id |-> 0, existed |-> FALSE]

\* the counters of two tables just created
NoneHandedOut == [wells |-> 0, stims |-> 0]

NoPure == [fn |-> "none", arg |-> None, ret |-> None, raised |-> "none", done |-> FALSE]

RECURSIVE SortedSeq(_)
\* sorted(...)
SortedSeq(paths) ==
    IF paths = {} THEN <<>>
    ELSE LET least == CHOOSE x \in paths : \A y \in paths : x <= y
         IN <<least>> \o SortedSeq(paths \ {least})

Folders == UNION {[P -> DOMAIN DocCatalogue] : P \in SUBSET Paths}

Init ==
    /\ \/ folder_exists = FALSE /\ folder = [x \in {} |-> None]
       \/ folder_exists = TRUE /\ folder \in Folders
    /\ db = EmptyStore
    /\ txn = EmptyStore
    /\ auto_increment = NoneHandedOut
    /\ session = "none"
    /\ pc = "idle"
    /\ pdf_files = <<>>
    /\ i = 0
    /\ cur = NoCall
    /\ raised = "none"
    /\ runs = 0
    /\ applied = <<>>
    /\ whole = EmptyStore
    /\ started = <<>>
    /\ failed_at = 0
    /\ failed_step = "none"
    /\ call = NoPure

\* Lines 300-309 of main: the folder check, the discovery and the session.
MainStart ==
    /\ pc = "idle"
    /\ runs < MaxRuns
    /\ runs' = runs + 1
    /\ started' = <<>>
    /\ failed_at' = 0
    /\ failed_step' = "none"
    /\ cur' = NoCall
    /\ IF ~folder_exists
       THEN /\ raised' = "FileNotFoundError"
            /\ session' = "none"
            /\ UNCHANGED <<pc, pdf_files, i>>
       ELSE /\ pdf_files' = SortedSeq(DOMAIN folder)
            /\ IF DOMAIN folder = {}
               THEN raised' = "none" /\ session' = "none" /\ UNCHANGED <<pc, i>>
               ELSE \* get_session() (line 309, outside the try) returns a
                    \* session, or create_all cannot reach the database
                    \/ raised' = "none" /\ session' = "open" /\ pc' = "loop" /\ i' = 1
                    \/ /\ raised' = "OperationalError"
                       /\ session' = "none"
                       /\ UNCHANGED <<pc, i>>
    /\ UNCHANGED <<folder_exists, folder, db, txn, auto_increment, applied, whole, call>>

\* mutant: the loop catches the exception, rolls back and goes on
PropagateAndContinue(err) ==
    /\ raised' = err
    /\ failed_at' = i
    /\ failed_step' = pc
    /\ txn' = db
    /\ pc' = "loop"
    /\ cur' = NoCall
    /\ i' = i + 1
    /\ UNCHANGED session

\* An exception leaving insert_data: process_pdf and the for loop do not catch
\* it, the finally clause of main closes the session (lines 310-315), which
\* rolls back what was not committed.
Propagate(err) ==
    /\ raised' = err
    /\ failed_at' = i
    /\ failed_step' = pc
    /\ txn' = db
    /\ session' = "closed"
    /\ pc' = "idle"
    /\ cur' = NoCall
    /\ UNCHANGED i

\* mutant: the session autocommits what it flushes
AfterFlushAutocommit(committed, flushed) == flushed

\* session.flush() (line 242) sends the INSERT inside the open transaction
\* (sessionmaker(autocommit=False)): the committed rows stay as they were.
AfterFlush(committed, flushed) == committed

\* `return` of process_pdf (288) or of insert_data (236): the loop goes on
Skip ==
    /\ i' = i + 1
    /\ UNCHANGED <<pc, cur, txn, session, raised, failed_at, failed_step>>

\* Lines 227-236 of insert_data, well_payload being the payload of line 233:
\* without identifier the call returns, with one it goes on to the well query.
Prepared(well_data, stim_data, well_payload) ==
    IF LacksApi(well_payload)
    THEN Skip
    ELSE /\ pc' = "well"
         /\ cur' = [path |-> pdf_files[i],
                    well_data |-> well_data,
                    stim_data |-> stim_data,
                    well_payload |-> well_payload,
                    stim_payload |-> StimPayload(stim_data),
                    missing |-> {f \in DOMAIN well_data : IsMissing(well_data[f])},
                    well_id |-> 0, existed |-> FALSE]
         /\ UNCHANGED <<i, txn, session, raised, failed_at, failed_step>>

\* Lines 290-293 of process_pdf, on what parse_well_info and
\* parse_stimulation_data did: the ValueError of either leaves process_pdf,
\* what they returned is handed to insert_data.
Parsed(well_data, stim_data) ==
    IF well_data = ValueError \/ stim_data = ValueError
    THEN Propagate("ValueError")
    ELSE Prepared(well_data, stim_data, WellPayload(well_data))

\* Lines 311-313 and process_pdf with the first lines of insert_data: the
\* next document is read and parsed. A file whose pages cannot be listed
\* raises out of extract_text_from_pdf (285), empty text skips the document
\* (286-288), a ValueError of a parser ends the run (290-291), a missing
\* identifier skips the document (234-236).
ProcessPdf ==
    /\ pc = "loop"
    /\ i <= Len(pdf_files)
    /\ started' = Append(started, i)
    /\ LET doc == DocCatalogue[folder[pdf_files[i]]]
       IN IF ~doc.readable
          THEN Propagate("PdfReadError")
          ELSE IF Strip(doc.text) = <<>>
          THEN Skip
          ELSE Parsed(parse_well_info(doc), parse_stimulation_data(doc))
    /\ UNCHANGED <<folder_exists, folder, db, auto_increment, pdf_files, runs, applied,
                   whole, call>>

\* Lines 238-247 of insert_data.
UpsertWell ==
    /\ pc = "well"
    /\ LET r == UpsertWellRow(txn, cur.well_payload, NextId(auto_increment.wells))
           handed_out == [auto_increment EXCEPT !.wells = NextId(@)]
       IN IF r.error # "none"
          THEN /\ Propagate(r.error)
               \* the INSERT the store rejects has taken its id
               /\ auto_increment' = IF r.error = "IntegrityError" THEN handed_out
                                     ELSE auto_increment
               /\ UNCHANGED db
          ELSE /\ txn' = r.store
               /\ auto_increment' = IF r.existed THEN auto_increment ELSE handed_out
               /\ db' = IF r.existed THEN db ELSE AfterFlush(db, r.store)
               /\ cur' = [cur EXCEPT !.well_id = r.well_id, !.existed = r.existed]
               /\ pc' = "stim"
               /\ UNCHANGED <<session, raised, failed_at, failed_step, i>>
    /\ UNCHANGED <<folder_exists, folder, pdf_files, runs, applied, whole, started, call>>

\* Lines 249-279 of insert_data.
UpsertStim ==
    /\ pc = "stim"
    /\ LET r == UpsertStimRow(txn, cur.well_id, cur.stim_payload,
                              NextId(auto_increment.stims))
       IN IF r.error # "none"
          THEN Propagate(r.error)
          ELSE /\ txn' = r.store
               /\ pc' = "commit"
               /\ UNCHANGED <<session, raised, failed_at, failed_step, i, cur>>
    /\ UNCHANGED <<folder_exists, folder, db, auto_increment, pdf_files, runs, applied,
                   whole, started, call>>

\* whether the session holds a new stimulation row, which the flush of
\* commit() inserts (autoflush=False)
StimInsertPending == \E r \in txn.stims : r.id = NextId(auto_increment.stims)

\* Line 281: session.commit() flushes what is pending and commits.
Commit ==
    /\ pc = "commit"
    /\ IF ~UniqueApi(txn)
       THEN \* the UPDATE of the well is rejected, before any stimulation INSERT
            Propagate("IntegrityError") /\ UNCHANGED <<db, auto_increment, applied, whole>>
       ELSE /\ db' = txn
            /\ auto_increment' = IF StimInsertPending
                                  THEN [auto_increment EXCEPT !.stims = NextId(@)]
                                  ELSE auto_increment
            /\ applied' = Append(applied,
                   [api |-> cur.well_payload["api"],
                    date |-> Get(cur.stim_payload, "date_stimulated")])
            /\ whole' = insert_data(whole, cur.well_data, cur.stim_data,
                                    [wells |-> cur.well_id,
                                     stims |-> NextId(auto_increment.stims)])
            /\ i' = i + 1
            /\ pc' = "loop"
            /\ cur' = NoCall
            /\ UNCHANGED <<txn, session, raised, failed_at, failed_step>>
    /\ UNCHANGED <<folder_exists, folder, pdf_files, runs, started, call>>

\* The store fails a statement of insert_data: the well query (238), the
\* flush (242), the stimulation query (267-274) or the commit (281). A failed
\* INSERT, or a failed COMMIT after an INSERT, may have taken the id.
StoreFailure ==
    /\ \/ pc \in {"well", "commit"}
       \/ pc = "stim" /\ HasDate(cur.stim_payload)
    /\ Propagate("OperationalError")
    /\ \/ auto_increment' = auto_increment
       \/ /\ pc = "well"
          /\ WellsByApi(txn, Get(cur.well_payload, "api")) = {}
          /\ auto_increment' = [auto_increment EXCEPT !.wells = NextId(@)]
       \/ /\ pc = "commit"
          /\ StimInsertPending
          /\ auto_increment' = [auto_increment EXCEPT !.stims = NextId(@)]
    /\ UNCHANGED <<folder_exists, folder, db, pdf_files, runs, applied, whole, started,
                   call>>

\* The for loop is exhausted: finally, session.close() (lines 314-315).
MainReturn ==
    /\ pc = "loop"
    /\ i > Len(pdf_files)
    /\ session' = "closed"
    /\ pc' = "idle"
    /\ UNCHANGED <<folder_exists, folder, db, txn, auto_increment, pdf_files, i, cur,
                   raised, runs, applied, whole, started, failed_at, failed_step, call>>

Next ==
    \/ MainStart
    \/ ProcessPdf
    \/ UpsertWell
    \/ UpsertStim
    \/ Commit
    \/ StoreFailure
    \/ MainReturn

Spec == Init /\ [][Next]_vars

\* ------------------------------------------------------------- properties

\* the identifier parse_well_info finds in document d of the catalogue
ApiOf(d) == parse_well_info(DocCatalogue[d])["api"]

\* the well row the call in progress wrote, as the transaction / the committed store has it
TxnWell == CHOOSE w \in txn.wells : w.id = cur.well_id

DbWell == CHOOSE w \in db.wells : w.id = cur.well_id

WellDefault(f) ==
    IF f \in WellNumericFields THEN N(NUMERIC_MISSING_DEFAULT) ELSE STRING_MISSING_DEFAULT

\* C1: no two well rows share an identifier, neither in the committed store nor
\* in the open transaction; the store never has to reject a duplicate; there is
\* exactly one well row per identifier committed, however often its documents
\* were processed, and a pass over an identifier already committed updates the
\* row the first pass created.
C1_OneWellPerApi ==
    /\ \A store \in {db, txn} : \A w1, w2 \in store.wells :
           w1.cols["api"] = w2.cols["api"] => w1 = w2
    /\ raised \notin {"IntegrityError", "MultipleResultsFound"}
    /\ \A k \in 1..Len(applied) :
           Cardinality({w \in db.wells : w.cols["api"] = applied[k].api}) = 1
    /\ Cardinality(db.wells) = Cardinality({applied[k].api : k \in 1..Len(applied)})
    /\ (/\ pc \in {"stim", "commit"}
        /\ \E k \in 1..Len(applied) : applied[k].api = cur.well_payload["api"])
       => /\ cur.existed
          /\ \E w \in db.wells : w.id = cur.well_id /\ w.cols["api"] = cur.well_payload["api"]

\* C1 witness: two passes over one identifier were committed and the store holds one well row.
C1_Witness ==
    /\ Len(applied) >= 2
    /\ applied[1] = applied[2]
    /\ Cardinality(db.wells) = 1

\* C2 as claimed: when insert_data updates an existing well row, every field
\* missing from the parsed document keeps the value the row had.
C2_MissingFieldUntouched ==
    (pc = "stim" /\ cur.existed)
    => \A f \in cur.missing : TxnWell.cols[f] = DbWell.cols[f]

\* C2 amended: when insert_data updates an existing well row, every field
\* missing from the parsed document is overwritten with its default ("N/A" for
\* a string field, 0 for latitude and longitude) and every other field with
\* the document's value: no field of the row keeps its value because the
\* document lacked it.
C2_MissingFieldDefaulted ==
    (pc = "stim" /\ cur.existed)
    => \A f \in WellColumns :
           TxnWell.cols[f] = IF f \in cur.missing THEN WellDefault(f)
                             ELSE cur.well_payload[f]

\* C2 witness: an update replaced a stored operator by "N/A".
C2_Witness ==
    /\ pc = "stim"
    /\ cur.existed
    /\ "operator" \in cur.missing
    /\ DbWell.cols["operator"] = Acme
    /\ TxnWell.cols["operator"] = STRING_MISSING_DEFAULT

\* C3: there is at most one stimulation row per (owning well, non-null date);
\* after the stimulation step of a dated payload exactly one row exists for
\* (this well, that date), it carries the payload, and a row was added only
\* if none existed; every dated document committed, once or more, has
\* exactly one row.
C3_OneStimPerWellDate ==
    /\ \A store \in {db, txn} : \A r1, r2 \in store.stims :
           (/\ r1.well_id = r2.well_id
            /\ r1.cols["date_stimulated"] = r2.cols["date_stimulated"]
            /\ r1.cols["date_stimulated"] # None) => r1 = r2
    /\ raised # "MultipleResultsFound"
    /\ (pc = "commit" /\ ~IsMissing(Get(cur.stim_payload, "date_stimulated")))
       => LET date == cur.stim_payload["date_stimulated"]
              hits == {r \in txn.stims :
                          r.well_id = cur.well_id /\ r.cols["date_stimulated"] = date}
              before == {r \in db.stims :
                            r.well_id = cur.well_id /\ r.cols["date_stimulated"] = date}
          IN /\ Cardinality(hits) = 1
             /\ \A r \in hits : \A f \in DOMAIN cur.stim_payload :
                    r.cols[f] = cur.stim_payload[f]
             /\ Cardinality(txn.stims) =
                    Cardinality(db.stims) + (IF before = {} THEN 1 ELSE 0)
    /\ \A k \in 1..Len(applied) :
           applied[k].date # None
           => Cardinality({r \in db.stims :
                  /\ r.cols["date_stimulated"] = applied[k].date
                  /\ \E w \in db.wells :
                         w.id = r.well_id /\ w.cols["api"] = applied[k].api}) = 1

\* C3 witness: two passes over one dated document left one stimulation row.
C3_Witness ==
    /\ Len(applied) >= 2
    /\ applied[1] = applied[2]
    /\ applied[1].date = Jan2
    /\ Cardinality(db.stims) = 1

\* whether the parsers returned and found no identifier
NoIdentifier(well_data, stim_data) ==
    well_data # ValueError /\ stim_data # ValueError /\ IsMissing(well_data["api"])

\* whether document d of the catalogue, its text extracted, yields no text
\* or, parsed, no identifier
DocLacksId(d) ==
    /\ DocCatalogue[d].readable
    /\ \/ Strip(DocCatalogue[d].text) = <<>>
       \/ NoIdentifier(parse_well_info(DocCatalogue[d]),
                       parse_stimulation_data(DocCatalogue[d]))

\* C4: no well row, committed or pending, has an empty or missing identifier,
\* and processing a document that yields no identifier or no text changes
\* neither the committed rows nor the transaction: the loop moves on.
C4_NoIdentifierNoWrite ==
    /\ [](\A store \in {db, txn} : \A w \in store.wells : ~IsMissing(w.cols["api"]))
    /\ [][(/\ pc = "loop"
           /\ i <= Len(pdf_files)
           /\ DocLacksId(folder[pdf_files[i]]))
          => (/\ db' = db
              /\ txn' = txn
              /\ applied' = applied
              /\ pc' = "loop"
              /\ i' = i + 1)]_vars

\* C4 witness: a document without identifier was just skipped while the store holds rows.
C4_Witness ==
    /\ pc = "loop"
    /\ i > 1
    /\ DocLacksId(folder[pdf_files[i - 1]])
    /\ Strip(DocCatalogue[folder[pdf_files[i - 1]]].text) # <<>>
    /\ db.wells # {}

\* C6: the committed store is always the result of whole insert_data calls,
\* one per committed document (the history `whole`): no flushed or pending
\* change of a call is committed before its commit, none survives a failure,
\* and nothing is pending between calls.
C6_AllOrNothing ==
    /\ db = whole
    /\ pc \in {"idle", "loop"} => txn = db

\* C6 witness: after a committed document, the commit of a document for a new
\* well failed, and the store holds no row of it.
C6_Witness ==
    /\ failed_step = "commit"
    /\ raised = "OperationalError"
    /\ applied # <<>>
    /\ \A w \in db.wells : w.cols["api"] # ApiOf(folder[pdf_files[failed_at]])

\* C7: the documents are taken in sorted-path order, one at a time; once the
\* processing of document k raised, main is over with the session closed, no
\* later document was started, the committed store is the one the documents
\* committed before left; the session is never open once main is over.
C7_FailureEndsRun ==
    /\ \A k \in 1..Len(started) : started[k] = k
    /\ \A k \in 1..(Len(pdf_files) - 1) : pdf_files[k] < pdf_files[k + 1]
    /\ pc = "loop" => session = "open" /\ Len(started) = i - 1
    /\ pc \in {"well", "stim", "commit"} => session = "open" /\ Len(started) = i
    /\ pc = "idle" => session # "open"
    /\ failed_at > 0
       => /\ pc = "idle"
          /\ session = "closed"
          /\ Len(started) = failed_at
          /\ db = whole
          /\ txn = db

\* C7 witness: a store statement of a document raised with another document
\* after it in the list and committed rows in the store.
C7_Witness ==
    /\ failed_at > 0
    /\ failed_step \in {"well", "stim", "commit"}
    /\ failed_at < Len(pdf_files)
    /\ applied # <<>>
    /\ db.wells # {}

\* C8: the stimulation step of a payload without date adds exactly one row,
\* owned by the well and dateless, and leaves every other row as it was; a
\* well has as many dateless rows as dateless documents were committed for it.
C8_DatelessAlwaysInserts ==
    /\ (pc = "commit" /\ IsMissing(Get(cur.stim_payload, "date_stimulated")))
       => /\ db.stims \subseteq txn.stims
          /\ Cardinality(txn.stims \ db.stims) = 1
          /\ \A r \in txn.stims \ db.stims :
                 /\ r.well_id = cur.well_id
                 /\ r.cols["date_stimulated"] = None
                 /\ \A f \in DOMAIN cur.stim_payload : r.cols[f] = cur.stim_payload[f]
    /\ \A w \in db.wells :
           Cardinality({r \in db.stims :
               r.well_id = w.id /\ r.cols["date_stimulated"] = None})
           = Cardinality({k \in 1..Len(applied) :
               applied[k].api = w.cols["api"] /\ applied[k].date = None})

\* C8 witness: two passes over a dateless document that names its formation
\* left two dateless rows of one well, each with the formation.
C8_Witness ==
    /\ Len(applied) >= 2
    /\ applied[1] = applied[2]
    /\ applied[1].date = None
    /\ \E w \in db.wells :
           Cardinality({r \in db.stims :
               /\ r.well_id = w.id
               /\ r.cols["date_stimulated"] = None
               /\ r.cols["stimulated_formation"] = Bakken}) = 2

\* whether no field of what parse_stimulation_data returned was observed
NoneObserved(stim_data) == \A f \in StimColumns : IsMissing(stim_data[f])

\* document d of the catalogue is one in which no stimulation field was observed
WellOnly(d) == NoneObserved(parse_stimulation_data(DocCatalogue[d]))

\* C11: at the commit of a well-only document (no stimulation field observed)
\* the stimulation payload is empty, the well row is written and the
\* transaction holds the stimulation rows the store had, none added, none
\* changed.
C11_WellOnlyWritesNoStim ==
    (pc = "commit" /\ WellOnly(folder[cur.path]))
    => /\ DOMAIN cur.stim_payload = {}
       /\ \E w \in txn.wells :
              w.id = cur.well_id /\ w.cols["api"] = cur.well_payload["api"]
       /\ txn.stims = db.stims

\* the identifiers of the wells owning row r in a store
OwnerApis(store, r) == {w.cols["api"] : w \in {v \in store.wells : v.id = r.well_id}}

\* what a step for identifier X may do to the rows of a store
Frame(before, after, X) ==
    /\ \A w \in before.wells : \E w2 \in after.wells :
           /\ w2.id = w.id
           /\ w2.cols["api"] = w.cols["api"]
           /\ w.cols["api"] # X => w2 = w
    /\ \A r \in before.stims : \E r2 \in after.stims :
           /\ r2.id = r.id
           /\ r2.well_id = r.well_id
           /\ X \notin OwnerApis(before, r) => r2 = r
    /\ \A w2 \in after.wells \ before.wells : w2.cols["api"] = X
    /\ \A r2 \in after.stims \ before.stims : OwnerApis(after, r2) = {X}

\* C12: every step of an insert_data call for identifier X leaves, in the
\* committed store and (short of a rollback) in the open transaction, every
\* well row with another identifier and every stimulation row owned by
\* another well as it was, keeps the id and the identifier of every existing
\* well row and the id and the owner of every existing stimulation row, adds
\* only a well row with identifier X and stimulation rows owned by it, and
\* removes no row; outside a call the committed rows do not change.
C12_OnlyOwnRowsChange ==
    [][/\ Frame(db, db', Get(cur.well_payload, "api"))
       /\ pc' \in {"stim", "commit"} => Frame(txn, txn', Get(cur.well_payload, "api"))
       /\ pc \in {"idle", "loop"} => db' = db]_vars

\* C12 witness: a call for a well already stored is about to commit its
\* changes while the store holds another well and a stimulation row of it,
\* both as they were.
C12_Witness ==
    /\ pc = "commit"
    /\ cur.existed
    /\ txn # db
    /\ \E w \in db.wells :
           /\ w.cols["api"] # cur.well_payload["api"]
           /\ w \in txn.wells
           /\ \E r \in db.stims : r.well_id = w.id /\ r \in txn.stims

\* ------------------------------------------------------------- the pure functions, called alone

\* main is not running and the store is empty
MainIdle ==
    /\ folder_exists = FALSE
    /\ folder = [x \in {} |-> None]
    /\ db = EmptyStore
    /\ txn = EmptyStore
    /\ auto_increment = NoneHandedOut
    /\ session = "none"
    /\ pc = "idle"
    /\ pdf_files = <<>>
    /\ i = 0
    /\ cur = NoCall
    /\ raised = "none"
    /\ runs = 0
    /\ applied = <<>>
    /\ whole = EmptyStore
    /\ started = <<>>
    /\ failed_at = 0
    /\ failed_step = "none"

mainVars ==
    <<folder_exists, folder, db, txn, auto_increment, session, pc, pdf_files, i, cur,
      raised, runs, applied, whole, started, failed_at, failed_step>>

Pending(fn, arg) ==
    [fn |-> fn, arg |-> arg, ret |-> None, raised |-> "none", done |-> FALSE]

\* the call of fn is over and returned a value
Returned(fn) == call.fn = fn /\ call.done /\ call.raised = "none"

\* -- normalise_api_string

MaxApiChars == 3

ApiAlphabet == {"4", "2", " ", "-", EM_DASH, EN_DASH, "x"}

SpacedApi == <<"4", "2", " ", "1", "2", "3", " ", "4", "5", "6", "7", "8">>

HyphenatedApi == <<"4", "2", "-", "1", "2", "3", "-", "4", "5", "6", "7", "8">>

EmDashedApi == <<"4", "2", EM_DASH, "1", "2", "3", EM_DASH, "4", "5", "6", "7", "8">>

\* an identifier followed by a reference too long for int()
OverlongApi == S(<<"4", "2">> \o OverlongReference.str)

CanonInputs ==
    {None, S(SpacedApi), S(HyphenatedApi), S(EmDashedApi), OverlongApi}
    \cup {S(v) : v \in UNION {[1..n -> ApiAlphabet] : n \in 0..MaxApiChars}}

CanonInit == MainIdle /\ \E v \in CanonInputs : call = Pending("normalise_api_string", v)

Canonicalize ==
    /\ call.fn = "normalise_api_string"
    /\ ~call.done
    /\ LET ret == normalise_api_string(call.arg)
       IN call' = IF ret = ValueError
                  THEN [call EXCEPT !.raised = "ValueError", !.done = TRUE]
                  ELSE [call EXCEPT !.ret = ret, !.done = TRUE]
    /\ UNCHANGED mainVars

SpecCanon == CanonInit /\ [][Canonicalize]_vars

\* C5 as claimed: "42 123 45678", "42-123-45678" and the em-dashed
\* "42<U+2014>123<U+2014>45678" all canonicalize to "42-123-45678".
C5_SeparatorInsensitive ==
    (/\ Returned("normalise_api_string")
     /\ call.arg \in {S(SpacedApi), S(HyphenatedApi), S(EmDashedApi)})
    => call.ret = S(HyphenatedApi)

\* -- apply_missing_defaults as insert_data calls it

SomeValues(field) ==
    IF field \in {"api", "operator", "acid"}
    THEN {None, S(<<>>), IF field = "api" THEN S(HyphenatedApi) ELSE Acme}
    ELSE IF field = "date_stimulated" THEN {None, S(<<>>), Jan2}
    ELSE {None, S(<<>>), N(0), N(47)}

Mappings(fields) ==
    UNION {{m \in [K -> UNION {SomeValues(f) : f \in K}] :
               \A f \in K : m[f] \in SomeValues(f)} : K \in SUBSET fields}

DefaultsInputs ==
    {[kind |-> "well", data |-> m] : m \in Mappings({"api", "operator", "latitude"})}
    \cup {[kind |-> "stim", data |-> m] :
             m \in Mappings({"date_stimulated", "acid", "volume"})}

DefaultsInit == MainIdle /\ \E a \in DefaultsInputs : call = Pending("apply_missing_defaults", a)

ApplyDefaults ==
    /\ call.fn = "apply_missing_defaults"
    /\ ~call.done
    /\ call' = [call EXCEPT
                   !.ret = IF call.arg.kind = "well" THEN WellPrepared(call.arg.data)
                           ELSE StimPrepared(call.arg.data),
                   !.done = TRUE]
    /\ UNCHANGED mainVars

SpecDefaults == DefaultsInit /\ [][ApplyDefaults]_vars

\* C9: what apply_missing_defaults returns to insert_data holds the identifier
\* (well call) and the stimulation date (stimulation call) exactly as given:
\* absent stays absent, None stays None, "" stays "", a value stays that value.
C9_IdentityFieldsNotDefaulted ==
    Returned("apply_missing_defaults")
    => LET key == IF call.arg.kind = "well" THEN "api" ELSE "date_stimulated"
           data == call.arg.data
       IN /\ key \in DOMAIN call.ret <=> key \in DOMAIN data
          /\ key \in DOMAIN data => call.ret[key] = data[key]
          /\ IsMissing(Get(data, key)) => IsMissing(Get(call.ret, key))

\* C9 witness: a well mapping with api None came back with "N/A" for the
\* operator and api still None.
C9_Witness ==
    /\ Returned("apply_missing_defaults")
    /\ call.arg.kind = "well"
    /\ "api" \in DOMAIN call.arg.data
    /\ call.arg.data["api"] = None
    /\ call.ret["api"] = None
    /\ call.ret["operator"] = STRING_MISSING_DEFAULT

\* -- extract_api_fallback

MaxSegments == 3

DigitRun(d, n) == [k \in 1..n |-> d]

TextSegments ==
    {DigitRun("1", n) : n \in {10, 12, 13, 14}}
    \cup {DigitRun("2", n) : n \in {10, 14}}
    \cup {<<" ">>, <<"-">>, <<"x">>}
    \* digits and a letter outside ASCII
    \cup {ArabicIndicRun, <<"U+00E9">>}

RECURSIVE Join(_)
Join(segments) == IF segments = <<>> THEN <<>> ELSE Head(segments) \o Join(Tail(segments))

RecoverInputs ==
    {Join(segs) : segs \in UNION {[1..n -> TextSegments] : n \in 0..MaxSegments}}

RecoverInit == MainIdle /\ \E t \in RecoverInputs : call = Pending("extract_api_fallback", t)

Recover ==
    /\ call.fn = "extract_api_fallback"
    /\ ~call.done
    /\ call' = [call EXCEPT !.ret = extract_api_fallback(call.arg), !.done = TRUE]
    /\ UNCHANGED mainVars

SpecRecover == RecoverInit /\ [][Recover]_vars

RECURSIVE Grouped(_, _)
\* the digits from position k on, a hyphen after the 2nd, 5th, 10th and 12th
Grouped(digits, k) ==
    IF k > Len(digits) THEN <<>>
    ELSE <<digits[k]>> \o (IF k \in {2, 5, 10, 12} /\ k < Len(digits) THEN <<"-">> ELSE <<>>)
             \o Grouped(digits, k + 1)

\* the maximal digit runs of a text that are n digits long
MaximalRuns(text, n) ==
    {SubSeq(text, k, k + n - 1) : k \in
        {k \in 1..Len(text) : /\ IsDigit(text[k])
                              /\ k = 1 \/ ~IsDigit(text[k - 1])
                              /\ DigitRunLen(text, k) = n}}

\* C10 as claimed, its last part: for a text that holds a 10-digit run and a
\* 14-digit run the result is a 14-digit run of the text, grouped 2-3-5-2-2.
C10_Prefers14DigitRun ==
    (/\ Returned("extract_api_fallback")
     /\ MaximalRuns(call.arg, 10) # {}
     /\ MaximalRuns(call.arg, 14) # {})
    => \E r \in MaximalRuns(call.arg, 14) : call.ret = S(Grouped(r, 1))

\* C10 amended: the result is absent when no candidate has 10, 12 or 14
\* digits; otherwise it is the grouping (2-3-5, 2-3-5-2, 2-3-5-2-2) of the
\* first of the longest candidates with 10, 12 or 14 digits, so when the
\* candidate list holds a 10-digit and a 14-digit candidate it is a 14-digit
\* candidate grouped 2-3-5-2-2.
C10_FirstLongestSupported ==
    Returned("extract_api_fallback")
    => LET cands == Candidates(call.arg)
           idx == {k \in 1..Len(cands) : Len(cands[k]) \in {10, 12, 14}}
       IN IF idx = {} THEN call.ret = None
          ELSE \E k \in idx :
                  /\ \A j \in idx : Len(cands[j]) <= Len(cands[k])
                  /\ \A j \in idx : j < k => Len(cands[j]) < Len(cands[k])
                  /\ call.ret = S(Grouped(cands[k], 1))
                  /\ (\E j \in idx : Len(cands[j]) = 14) => Len(call.ret.str) = 18

\* C10 witness: the candidates hold a 10-digit and a 14-digit one, a 13-digit
\* one is passed over, and the result is 14 digits grouped 2-3-5-2-2.
C10_Witness ==
    /\ Returned("extract_api_fallback")
    /\ \E j, k, l \in 1..Len(Candidates(call.arg)) :
           /\ Len(Candidates(call.arg)[j]) = 10
           /\ Len(Candidates(call.arg)[k]) = 14
           /\ Len(Candidates(call.arg)[l]) = 13
    /\ call.ret # None
    /\ Len(call.ret.str) = 18

====
